---- MODULE Spec2Model ----
(***************************************************************************)
(* State-machine model of the amazon-scrape repository:                    *)
(*   - ProxyManager, ThrottleManager and ProtectedScraper of               *)
(*     src/anti_block.py (the protected browsing session controller);      *)
(*   - AmazonHTMLScraper of src/scraper/worker.py (the pagination engine)  *)
(*     as driven by main() of src/html_scraper.py.                         *)
(*                                                                         *)
(* The specifications share the variables:                                 *)
(*   SpecProxy    - a ProxyManager under get_next_proxy / mark_failed;     *)
(*   SpecThrottle - a ThrottleManager under wait / report_* / reset;       *)
(*   Spec         - a ProtectedScraper (owning both managers) under        *)
(*                  navigate_with_protection and its public operations;    *)
(*   SpecWorker   - main() running AmazonHTMLScraper against a site;       *)
(*   SpecDetect   - the CaptchaDetector and BlockDetector on page          *)
(*                  snapshots, and wait_for_manual_solve polling one.      *)
(*   SpecLoader   - save_html_to_single_file writing the raw-page file    *)
(*                  and split_pages of src/extract/loader.py reading it;   *)
(*   SpecFingerprint - BrowserFingerprint objects of src/fingerprint.py;   *)
(*   SpecRotate   - a ProtectedScraper that starts a session and keeps     *)
(*                  rotating its proxy;                                    *)
(*   SpecScroll   - human_scroll of src/scraper/actions.py on a page that  *)
(*                  may lazy-load more content;                            *)
(*   SpecAmazon   - scrape_amazon_page of src/amazon.py in protected mode. *)
(***************************************************************************)
EXTENDS Integers, Sequences, FiniteSets, TLC

VARIABLES
    pm,      \* ProxyManager: [proxy_list, failed_proxies]
    pmh,     \* observation of the last ProxyManager call (SpecProxy)
    tm,      \* ThrottleManager: [request_count, backoff_multiplier]
    th,      \* the clock against last_request_time and the last ThrottleManager calls
    ps,      \* ProtectedScraper: [driver, current_proxy, current_fingerprint, ...]
    nav,     \* the running navigate_with_protection call
    wk,      \* AmazonHTMLScraper and the frame of scrape_product_to_reviews
    site,    \* the browser session / web site the worker talks to
    det,     \* the detectors' calls on a page snapshot (SpecDetect)
    ld,      \* the raw-page file, what was written to it and split from it
    fg,      \* the BrowserFingerprint objects created so far
    hs,      \* the page being scrolled and the frame of human_scroll
    az       \* the frame of scrape_amazon_page in protected mode

vars == <<pm, pmh, tm, th, ps, nav, wk, site, det, ld, fg, hs, az>>

None == "None"

\* ------------------------------------------------------------------------
\* Bounds of the model
\* ------------------------------------------------------------------------
MaxProxies == 2        \* distinct proxies a pool is built from, and its length
MaxDecay == 4          \* report_success decays since the last cap or floor
MaxRequestCount == 21  \* wait() calls counted by request_count
MaxRetriesArg == 1     \* largest max_retries a caller passes
MaxCalls == 2          \* public ProtectedScraper operations in one run
MaxSitePages == 4      \* reviews pages of a small site (a large one exceeds the cap)
PageLen == 6000        \* len(page_source) of a page that is not a stub
MaxTimeout == 7        \* largest timeout (seconds) given to wait_for_manual_solve
MaxOversleep == 1      \* seconds a time.sleep may take beyond what was asked
MaxHtml == 2           \* tokens in the content of one page
MaxPagesWritten == 2   \* pages appended to one raw-page file
MaxSeed == 3           \* largest seed a fingerprint is created with
MaxMade == 3           \* BrowserFingerprint objects created in one run
Epoch == 60            \* time.time() - 0 at the first wait(): longer than any delay
MaxPool == 3           \* proxies in the pool of a scraper that keeps rotating
MaxRotations == 4      \* start_driver / rotate_ip calls in one run of rotations
MaxGrowth == 2         \* times a page lazy-loads more content while it is scrolled
MaxScrolls == 6        \* scroll steps a page of scrape_amazon_page takes to its end

\* ------------------------------------------------------------------------
\* ProxyManager (src/anti_block.py)
\* ------------------------------------------------------------------------
ProxyNames == <<"10.0.0.1:8080", "10.0.0.2:8080", "10.0.0.3:8080",
                "10.0.0.4:8080", "10.0.0.5:8080">>
Proxies == {ProxyNames[i] : i \in 1..MaxProxies}

RECURSIVE SeqsUpTo(_, _)
SeqsUpTo(S, n) ==
    IF n = 0 THEN {<<>>}
    ELSE LET shorter == SeqsUpTo(S, n - 1)
         IN shorter \cup {Append(s, x) : s \in {t \in shorter : Len(t) = n - 1}, x \in S}

Range(s) == {s[i] : i \in 1..Len(s)}

\* ProxyManager.__init__: the pool given by the caller, nothing failed.
ProxyManagerInit(proxy_list) ==
    [proxy_list |-> proxy_list, failed_proxies |-> {}]

\* available = [p for p in self.proxy_list if p not in self.failed_proxies]
Available(m) == SelectSeq(m.proxy_list, LAMBDA p : p \notin m.failed_proxies)

\* The proxies random.choice may return, as the buggy variant that forgets
\* the filter on failed_proxies.
ChoicesUnfiltered(m) == Range(m.proxy_list)

\* The candidates random.choice(available) draws from (empty pool: none).
Choices(m) ==
    IF Available(m) = <<>> THEN Range(m.proxy_list) ELSE Range(Available(m))

\* failed_proxies after get_next_proxy, as the variant that never resets it.
FailedAfterGetNoClear(m) == m.failed_proxies

\* failed_proxies after get_next_proxy: cleared when nothing is available.
FailedAfterGet(m) ==
    IF m.proxy_list = <<>> THEN m.failed_proxies
    ELSE IF Available(m) = <<>> THEN {} ELSE m.failed_proxies

\* get_next_proxy with random.choice resolved to `pick`: the manager after
\* the call and the proxy returned.
get_next_proxy(m, pick) ==
    IF m.proxy_list = <<>>
    THEN [pm |-> m, proxy |-> None]
    ELSE [pm |-> [m EXCEPT !.failed_proxies = FailedAfterGet(m)], proxy |-> pick]

\* What random.choice can be resolved to in get_next_proxy.
PickSet(m) == IF m.proxy_list = <<>> THEN {None} ELSE Choices(m)

\* mark_failed, as the variant that takes a proxy marked before off the set.
mark_failed_toggling(m, proxy) ==
    IF proxy = None THEN m
    ELSE IF proxy \in m.failed_proxies
    THEN [m EXCEPT !.failed_proxies = @ \ {proxy}]
    ELSE [m EXCEPT !.failed_proxies = @ \cup {proxy}]

\* mark_failed(proxy): a falsy proxy (None) is ignored.
mark_failed(m, proxy) ==
    IF proxy /= None
    THEN [m EXCEPT !.failed_proxies = @ \cup {proxy}]
    ELSE m

\* ------------------------------------------------------------------------
\* ThrottleManager (src/anti_block.py)
\*
\* backoff_multiplier is an exact rational 2^a * 3^b * 5^c kept as <<a,b,c>>:
\* every factor and cap of the code (1.5, 0.9, 2.0, 3.0, 1.0, 5.0, 10.0) is
\* of that form, so products, min and max are computed without rounding.
\* ------------------------------------------------------------------------
BurstThreshold == 10

Q_1_0 == <<0, 0, 0>>     \* 1.0
Q_0_9 == <<-1, 2, -1>>   \* 0.9 = 9/10
Q_1_5 == <<-1, 1, 0>>    \* 1.5 = 3/2
Q_2_0 == <<1, 0, 0>>     \* 2.0
Q_3_0 == <<0, 1, 0>>     \* 3.0
Q_5_0 == <<0, 0, 1>>     \* 5.0
Q_10_0 == <<1, 0, 1>>    \* 10.0

RECURSIVE Pow(_, _)
Pow(b, e) == IF e <= 0 THEN 1 ELSE b * Pow(b, e - 1)

Mul(x, y) == <<x[1] + y[1], x[2] + y[2], x[3] + y[3]>>
Div(x, y) == <<x[1] - y[1], x[2] - y[2], x[3] - y[3]>>
Numer(x) == Pow(2, x[1]) * Pow(3, x[2]) * Pow(5, x[3])
Denom(x) == Pow(2, -x[1]) * Pow(3, -x[2]) * Pow(5, -x[3])
\* x < y  iff  x / y < 1
Less(x, y) == Numer(Div(x, y)) < Denom(Div(x, y))
LessEq(x, y) == Numer(Div(x, y)) <= Denom(Div(x, y))
QMin(x, y) == IF Less(y, x) THEN y ELSE x
QMax(x, y) == IF Less(x, y) THEN y ELSE x

\* ThrottleManager.__init__
ThrottleManagerInit == [request_count |-> 0, backoff_multiplier |-> Q_1_0]

\* The burst adjustment of wait(), as the variant without the 3.0 cap.
BurstNoCap(m) == Mul(m, Q_1_5)

\* self.backoff_multiplier = min(self.backoff_multiplier * 1.5, 3.0)
Burst(m) == QMin(Mul(m, Q_1_5), Q_3_0)

\* wait(): count the request, adjust on every burst_threshold-th request.
\* (The sleep and last_request_time do not touch the multiplier.)
wait(t) ==
    LET n == t.request_count + 1
    IN [request_count |-> n,
        backoff_multiplier |->
            IF n % BurstThreshold = 0 THEN Burst(t.backoff_multiplier)
            ELSE t.backoff_multiplier]

\* actual_delay = base_delay * self.backoff_multiplier, as a fraction n/d.
ActualDelay(base_delay, m) == [n |-> base_delay * Numer(m), d |-> Denom(m)]

\* The pacing, as the variant that always sleeps the whole delay.
SleepTimeWholeDelay(time_since_last, actual_delay) == actual_delay

\* if time_since_last < actual_delay: sleep_time = actual_delay -
\* time_since_last; 0 stands for "time.sleep is not called".
SleepTime(time_since_last, actual_delay) ==
    IF time_since_last * actual_delay.d < actual_delay.n
    THEN [n |-> actual_delay.n - time_since_last * actual_delay.d,
          d |-> actual_delay.d]
    ELSE [n |-> 0, d |-> 1]

\* report_success, as the variant that forgets the floor max(1.0, ...).
DecayNoFloor(m) == IF Less(Q_1_0, m) THEN Mul(m, Q_0_9) ELSE m

\* if m > 1.0: m = max(1.0, m * 0.9)
Decay(m) == IF Less(Q_1_0, m) THEN QMax(Q_1_0, Mul(m, Q_0_9)) ELSE m

report_success(t) == [t EXCEPT !.backoff_multiplier = Decay(@)]

\* report_error, as the variant whose "block" branch has no 10.0 cap.
BackoffNoCap(m, error_type) ==
    IF error_type = "rate_limit" THEN QMin(Mul(m, Q_2_0), Q_5_0)
    ELSE IF error_type = "block" THEN Mul(m, Q_3_0)
    ELSE m

\* report_error, as the variant that treats every other error type as a
\* rate limit.
BackoffOnAnyError(m, error_type) ==
    IF error_type = "block" THEN QMin(Mul(m, Q_3_0), Q_10_0)
    ELSE QMin(Mul(m, Q_2_0), Q_5_0)

\* rate_limit: min(m * 2.0, 5.0); block: min(m * 3.0, 10.0); else unchanged
Backoff(m, error_type) ==
    IF error_type = "rate_limit" THEN QMin(Mul(m, Q_2_0), Q_5_0)
    ELSE IF error_type = "block" THEN QMin(Mul(m, Q_3_0), Q_10_0)
    ELSE m

report_error(t, error_type) ==
    [t EXCEPT !.backoff_multiplier = Backoff(@, error_type)]

\* reset()
reset(t) == [request_count |-> 0, backoff_multiplier |-> Q_1_0]

\* The model follows a multiplier only while it has decayed at most MaxDecay
\* times since it last sat on a cap or on the floor.
Tracked(m) == -m[3] <= MaxDecay

ErrorTypes == {"rate_limit", "block", "generic"}

\* ------------------------------------------------------------------------
\* Pages as the detectors see them (src/anti_block.py)
\*
\* A page snapshot is the set of detector-relevant features it shows; the
\* empty set is a large clean page.
\* ------------------------------------------------------------------------
Marks == {"url_captcha",      \* URL contains a CAPTCHA_URL_PATTERNS substring
          "title_captcha",    \* title contains "robot" or "captcha"
          "captcha_element",  \* a CAPTCHA_XPATHS element is displayed
          "strong_phrase",    \* source contains a STRONG_INDICATORS phrase
          "captcha_text",     \* source contains "captcha" or "robot check"
          "under_10000",      \* len(page_source) < 10000
          "under_1000",       \* len(page_source) < 1000
          "title_block",      \* title contains a BLOCK_INDICATORS phrase
          "block_phrase"}     \* first 5000 chars contain a BLOCK_INDICATORS phrase

\* The pages a browser may come to show while a detector polls it: one for
\* every branch of the two detectors, and pages that match both detectors.
NavPages ==
    {{}, {"title_block"}, {"block_phrase"}, {"under_1000"},
     {"url_captcha"}, {"title_captcha"}, {"captcha_element"}, {"strong_phrase"},
     {"under_10000", "captcha_text"},
     {"strong_phrase", "block_phrase"}, {"captcha_text", "under_1000"}}

\* The pages navigate_with_protection is served: a clean page, a block
\* page, a captcha page, and the two kinds of page both detectors match.
ServedPages ==
    {{}, {"title_block"}, {"captcha_element"},
     {"strong_phrase", "block_phrase"}, {"captcha_text", "under_1000"}}

\* BlockDetector.is_blocked: title, then content sample, then page size.
is_blocked(page) ==
    \/ "title_block" \in page
    \/ "block_phrase" \in page
    \/ "under_1000" \in page

\* is_captcha_present, as the variant that looks for the strong phrases
\* before the URL, the title and the elements.
is_captcha_present_text_first(page) ==
    IF "strong_phrase" \in page THEN "text_pattern"
    ELSE IF "url_captcha" \in page THEN "url"
    ELSE IF "title_captcha" \in page THEN "title"
    ELSE IF "captcha_element" \in page THEN "element"
    ELSE IF ("under_10000" \in page \/ "under_1000" \in page)
            /\ "captcha_text" \in page THEN "small_page"
    ELSE None

\* is_captcha_present, as the variant that tests the page size before the
\* strong phrases.
is_captcha_present_size_first(page) ==
    IF "url_captcha" \in page THEN "url"
    ELSE IF "title_captcha" \in page THEN "title"
    ELSE IF "captcha_element" \in page THEN "element"
    ELSE IF ("under_10000" \in page \/ "under_1000" \in page)
            /\ "captcha_text" \in page THEN "small_page"
    ELSE IF "strong_phrase" \in page THEN "text_pattern"
    ELSE None

\* CaptchaDetector.is_captcha_present: the kind of the first matching check.
is_captcha_present(page) ==
    IF "url_captcha" \in page THEN "url"
    ELSE IF "title_captcha" \in page THEN "title"
    ELSE IF "captcha_element" \in page THEN "element"
    ELSE IF "strong_phrase" \in page THEN "text_pattern"
    ELSE IF ("under_10000" \in page \/ "under_1000" \in page)
            /\ "captcha_text" \in page THEN "small_page"
    ELSE None

\* _silent_captcha_check, as the variant that leaves out the small-page
\* check.
silent_captcha_check_without_small_page(page) ==
    \/ "url_captcha" \in page
    \/ "title_captcha" \in page
    \/ "captcha_element" \in page
    \/ "strong_phrase" \in page

\* CaptchaDetector._silent_captcha_check: the same five checks, as a boolean.
silent_captcha_check(page) ==
    \/ "url_captcha" \in page
    \/ "title_captcha" \in page
    \/ "captcha_element" \in page
    \/ "strong_phrase" \in page
    \/ /\ "under_10000" \in page \/ "under_1000" \in page
       /\ "captcha_text" \in page

\* ------------------------------------------------------------------------
\* ProtectedScraper (src/anti_block.py)
\*
\* The operations are functions on a world w = [pm, tm, ps, log, raised]:
\* the two managers, the scraper's own fields, the calls made so far in the
\* current step and whether an exception is propagating.
\* ------------------------------------------------------------------------
NoDriver == None       \* self.driver = None
Chrome == "chrome"     \* self.driver is a live webdriver.Chrome session
NoFingerprint == 0     \* self.current_fingerprint = None
DefaultMaxRetries == 3 \* self.max_retries

\* ProtectedScraper.__init__; `fingerprints` counts the fingerprints made so
\* far (each new one is a new object), `calls` the public operations and
\* `session_fingerprint` is the fingerprint the live driver was created with.
ProtectedScraperInit ==
    [driver |-> NoDriver, current_proxy |-> None,
     current_fingerprint |-> NoFingerprint,
     session_fingerprint |-> NoFingerprint,
     fingerprints |-> 0, calls |-> 0]

Logged(w, call) == [w EXCEPT !.log = Append(@, call)]

\* quit_driver(): driver.quit() swallows its exceptions.
quit_driver(w) ==
    IF w.ps.driver /= NoDriver
    THEN [Logged(w, "quit") EXCEPT !.ps.driver = NoDriver,
                                   !.ps.session_fingerprint = NoFingerprint]
    ELSE w

\* The fingerprint start_driver uses, as the variant that makes a new one
\* on every start.
WithFingerprintAlwaysNew(w, new_fingerprint) ==
    [w EXCEPT !.ps.fingerprints = @ + 1,
              !.ps.current_fingerprint = w.ps.fingerprints + 1]

\* FingerprintManager.new_session() when start_driver asks for it.
WithFingerprint(w, new_fingerprint) ==
    IF new_fingerprint \/ w.ps.current_fingerprint = NoFingerprint
    THEN [w EXCEPT !.ps.fingerprints = @ + 1,
                   !.ps.current_fingerprint = w.ps.fingerprints + 1]
    ELSE w

\* start_driver(new_fingerprint) with create_protected_driver inlined:
\* e.pick resolves random.choice in get_next_proxy, e.chrome_ok tells whether
\* webdriver.Chrome() and the fingerprint injection succeed. A failure leaves
\* driver and current_proxy as they were before the assignment.
start_driver(w, new_fingerprint, e) ==
    LET w1 == WithFingerprint(quit_driver(w), new_fingerprint)
        got == get_next_proxy(w1.pm, e.pick)
        w2 == [Logged(w1, "create") EXCEPT !.pm = got.pm]
    IN IF e.chrome_ok
       THEN [w2 EXCEPT !.ps.driver = Chrome,
                       !.ps.current_proxy = got.proxy,
                       !.ps.session_fingerprint = w2.ps.current_fingerprint]
       ELSE [w2 EXCEPT !.raised = TRUE]

\* The proxy manager as start_driver finds it.
PickSetStart(w) == PickSet(w.pm)

\* rotate_ip, as the variant that does not mark the current proxy failed.
rotate_ip_without_marking(w, new_fingerprint, e) ==
    start_driver(Logged(quit_driver(Logged(w, "rotate_ip")), "sleep"),
                 new_fingerprint, e)

\* rotate_ip, as the variant that cools down first and leaves the quit to
\* start_driver.
rotate_ip_quitting_late(w, new_fingerprint, e) ==
    LET w0 == Logged(w, "rotate_ip")
        w1 == IF w0.ps.current_proxy /= None
              THEN [Logged(w0, "mark_failed")
                       EXCEPT !.pm = mark_failed(w0.pm, w0.ps.current_proxy)]
              ELSE w0
    IN start_driver(Logged(w1, "sleep"), new_fingerprint, e)

\* rotate_ip(new_fingerprint): mark the current proxy failed, quit, cool
\* down, start a new driver.
rotate_ip(w, new_fingerprint, e) ==
    LET w0 == Logged(w, "rotate_ip")
        w1 == IF w0.ps.current_proxy /= None
              THEN [Logged(w0, "mark_failed")
                       EXCEPT !.pm = mark_failed(w0.pm, w0.ps.current_proxy)]
              ELSE w0
        w2 == Logged(quit_driver(w1), "sleep")
    IN start_driver(w2, new_fingerprint, e)

\* The proxy manager as the start_driver inside rotate_ip finds it.
PickSetRotate(w) == PickSet(mark_failed(w.pm, w.ps.current_proxy))

\* new_identity()
new_identity(w, e) == rotate_ip(w, TRUE, e)

\* get_driver()
get_driver(w, e) ==
    IF w.ps.driver = NoDriver THEN start_driver(w, FALSE, e) ELSE w

\* cleanup()
cleanup(w) ==
    [quit_driver(w) EXCEPT !.ps.current_fingerprint = NoFingerprint]

\* retries = max_retries or self.max_retries
Retries(given, max_retries) ==
    IF given /\ max_retries /= 0 THEN max_retries ELSE DefaultMaxRetries

\* ------------------------------------------------------------------------
\* Idle values of the components a specification does not exercise
\* ------------------------------------------------------------------------
PmhInit == [op |-> "init", arg |-> None, ret |-> None, failed_before |-> {}]
ThInit == [last_call |-> "init", error_type |-> None, burst |-> FALSE,
           prev |-> Q_1_0, recent |-> <<>>,
           idle |-> Epoch, since |-> 0, base_delay |-> 0, slept |-> FALSE,
           sleep_time |-> [n |-> 0, d |-> 1], waited |-> [n |-> 0, d |-> 1]]
NavIdle == [pc |-> "idle", given |-> FALSE, max_retries |-> 0, retries |-> 0,
            attempt |-> 0, result |-> None, log |-> <<>>,
            attempts |-> 0, blocked |-> 0, rotations |-> 0,
            page |-> <<>>, op |-> None]
WkIdle == [pc |-> "idle", driver |-> None, output_file |-> None,
           total_pages |-> 0, total_bytes |-> 0, page_number |-> 0,
           href |-> None, next_href |-> <<>>, result |-> None,
           stop_reason |-> None, fault |-> None, nominal |-> TRUE,
           confirm_waits |-> 0, iter_saved |-> 0, iter_clicks |-> 0,
           stalled |-> FALSE, stopped |-> FALSE, exit_code |-> None,
           clicks |-> <<>>]
SiteIdle == [last |-> 0, url |-> <<"blank", 0>>, page |-> {}, pending |-> <<>>]
DetIdle == [pc |-> "idle", page |-> {}, op |-> None, ret |-> None,
            timeout |-> 0, elapsed |-> 0, polls |-> 0, clean_polls |-> 0]
LdIdle == [pc |-> "idle", raw |-> <<>>, written |-> <<>>, pages |-> <<>>]
FgIdle == [made |-> <<>>, module_rng |-> 0]
HsIdle == [pc |-> "idle", height |-> 0, inner_height |-> 0, growth |-> 0,
           target_y |-> -1, scroll_y |-> 0, total_height |-> 0,
           viewport_height |-> 0, current_pos |-> 0, scroll_count |-> 0,
           found_element |-> None, in_view_seen |-> FALSE, grown |-> 0,
           scrolled_back |-> FALSE]
AzIdle == [pc |-> "idle", target_xpath |-> FALSE, scroll_count |-> 0,
           element_found |-> FALSE, was_blocked |-> FALSE,
           captcha_detected |-> FALSE, visited |-> FALSE, driver |-> None,
           html |-> None]

\* ------------------------------------------------------------------------
\* SpecProxy: a ProxyManager and its callers
\* ------------------------------------------------------------------------
InitProxy ==
    /\ pm \in {ProxyManagerInit(l) : l \in SeqsUpTo(Proxies, MaxProxies)}
    /\ pmh = PmhInit
    /\ tm = ThrottleManagerInit
    /\ th = ThInit
    /\ ps = ProtectedScraperInit
    /\ nav = NavIdle
    /\ wk = WkIdle
    /\ site = SiteIdle
    /\ det = DetIdle
    /\ ld = LdIdle
    /\ fg = FgIdle
    /\ hs = HsIdle
    /\ az = AzIdle

GetNextProxy ==
    \E pick \in PickSet(pm) :
        LET r == get_next_proxy(pm, pick)
        IN /\ pm' = r.pm
           /\ pmh' = [op |-> "get_next_proxy", arg |-> None, ret |-> r.proxy,
                      failed_before |-> pm.failed_proxies]
           /\ UNCHANGED <<tm, th, ps, nav, wk, site, det, ld, fg, hs, az>>

MarkFailed ==
    \E p \in Proxies \cup {None} :
        /\ pm' = mark_failed(pm, p)
        /\ pmh' = [op |-> "mark_failed", arg |-> p, ret |-> None,
                   failed_before |-> pm.failed_proxies]
        /\ UNCHANGED <<tm, th, ps, nav, wk, site, det, ld, fg, hs, az>>

NextProxy == GetNextProxy \/ MarkFailed

SpecProxy == InitProxy /\ [][NextProxy]_vars

\* ------------------------------------------------------------------------
\* SpecThrottle: a ThrottleManager and its callers
\* ------------------------------------------------------------------------
InitThrottle ==
    /\ pm = ProxyManagerInit(<<>>)
    /\ pmh = PmhInit
    /\ tm = ThrottleManagerInit
    /\ th = ThInit
    /\ ps = ProtectedScraperInit
    /\ nav = NavIdle
    /\ wk = WkIdle
    /\ site = SiteIdle
    /\ det = DetIdle
    /\ ld = LdIdle
    /\ fg = FgIdle
    /\ hs = HsIdle
    /\ az = AzIdle

\* The multipliers at entry of the trailing consecutive wait() calls, the
\* last BurstThreshold of them.
PushRecent(recent, m) ==
    LET all == Append(recent, m)
    IN IF Len(all) > BurstThreshold THEN Tail(all) ELSE all

\* The clock readings the model follows, as seconds since last_request_time.
IdleTimes == {0, 5, Epoch}

\* random.uniform(self.min_delay, self.max_delay), at its two ends.
BaseDelays == {2, 5}

\* What the model remembers of the last wait() until the next call.
NoWait(h) == [h EXCEPT !.since = 0, !.base_delay = 0, !.slept = FALSE,
                       !.sleep_time = [n |-> 0, d |-> 1],
                       !.waited = [n |-> 0, d |-> 1]]

\* Time passes between two calls.
Tick ==
    /\ \E later \in IdleTimes :
          /\ later > th.idle
          /\ th' = [NoWait(th) EXCEPT !.last_call = "tick", !.error_type = None,
                                      !.idle = later]
    /\ UNCHANGED <<pm, pmh, tm, ps, nav, wk, site, det, ld, fg, hs, az>>

\* wait(): the counter and the burst step, then the pacing against
\* last_request_time; time.sleep returns after the time asked or a little
\* later; last_request_time = time.time() at the end.
Wait ==
    /\ tm.request_count < MaxRequestCount
    /\ tm' = wait(tm)
    /\ \E base_delay \in BaseDelays, over \in {0, MaxOversleep} :
          LET actual_delay == ActualDelay(base_delay, tm'.backoff_multiplier)
              sleep_time == SleepTime(th.idle, actual_delay)
              slept == sleep_time.n > 0
          IN /\ ~slept => over = 0
             /\ th' = [last_call |-> "wait", error_type |-> None,
                       burst |-> (tm'.request_count % BurstThreshold = 0),
                       prev |-> tm.backoff_multiplier,
                       recent |-> PushRecent(th.recent, tm.backoff_multiplier),
                       idle |-> 0, since |-> th.idle, base_delay |-> base_delay,
                       slept |-> slept, sleep_time |-> sleep_time,
                       waited |-> [n |-> th.idle * sleep_time.d + sleep_time.n
                                         + over * sleep_time.d,
                                   d |-> sleep_time.d]]
    /\ UNCHANGED <<pm, pmh, ps, nav, wk, site, det, ld, fg, hs, az>>

ReportSuccess ==
    /\ Tracked(report_success(tm).backoff_multiplier)
    /\ tm' = report_success(tm)
    /\ th' = [NoWait(th) EXCEPT !.last_call = "report_success", !.error_type = None,
                        !.burst = FALSE, !.prev = tm.backoff_multiplier,
                        !.recent = <<>>]
    /\ UNCHANGED <<pm, pmh, ps, nav, wk, site, det, ld, fg, hs, az>>

ReportError ==
    \E error_type \in ErrorTypes :
        /\ tm' = report_error(tm, error_type)
        /\ th' = [NoWait(th) EXCEPT !.last_call = "report_error", !.error_type = error_type,
                            !.burst = FALSE, !.prev = tm.backoff_multiplier,
                            !.recent = <<>>]
        /\ UNCHANGED <<pm, pmh, ps, nav, wk, site, det, ld, fg, hs, az>>

Reset ==
    /\ tm' = reset(tm)
    /\ th' = [NoWait(th) EXCEPT !.last_call = "reset", !.error_type = None,
                        !.burst = FALSE, !.prev = tm.backoff_multiplier,
                        !.recent = <<>>]
    /\ UNCHANGED <<pm, pmh, ps, nav, wk, site, det, ld, fg, hs, az>>

NextThrottle == Wait \/ ReportSuccess \/ ReportError \/ Reset \/ Tick

SpecThrottle == InitThrottle /\ [][NextThrottle]_vars

\* ------------------------------------------------------------------------
\* SpecDetect: the detectors called on a page snapshot, and
\* wait_for_manual_solve(driver, timeout) polling the page while the user
\* (or the site) changes it. det.elapsed is time.time() - start_time in
\* seconds; det.polls counts the polls that saw a captcha, det.clean_polls
\* those that saw none.
\* ------------------------------------------------------------------------
\* Every combination of features, the three size classes being exclusive.
DetPages == {pg \in SUBSET Marks : ~({"under_10000", "under_1000"} \subseteq pg)}

Timeouts == 0..MaxTimeout

PollInterval == 3      \* time.sleep(3)  # Check every 3 seconds
SolvedPause == 2       \* time.sleep(2)  # Wait a bit after solving

InitDetect ==
    /\ pm = ProxyManagerInit(<<>>)
    /\ pmh = PmhInit
    /\ tm = ThrottleManagerInit
    /\ th = ThInit
    /\ ps = ProtectedScraperInit
    /\ nav = NavIdle
    /\ wk = WkIdle
    /\ site = SiteIdle
    /\ det \in {[DetIdle EXCEPT !.pc = "ready", !.page = pg] : pg \in DetPages}
    /\ ld = LdIdle
    /\ fg = FgIdle
    /\ hs = HsIdle
    /\ az = AzIdle

DetFrame == <<pm, pmh, tm, th, ps, nav, wk, site, ld, fg, hs, az>>

\* CaptchaDetector.is_captcha_present(driver) on the page shown.
IsCaptchaPresent ==
    /\ det.pc = "ready"
    /\ det' = [det EXCEPT !.op = "is_captcha_present",
                          !.ret = is_captcha_present(det.page)]
    /\ UNCHANGED DetFrame

\* BlockDetector.is_blocked(driver) on the page shown.
IsBlocked ==
    /\ det.pc = "ready"
    /\ det' = [det EXCEPT !.op = "is_blocked",
                          !.ret = IF is_blocked(det.page) THEN "True" ELSE "False"]
    /\ UNCHANGED DetFrame

\* wait_for_manual_solve(driver, timeout): entry, start_time = time.time().
StartWait ==
    /\ det.pc = "ready"
    /\ \E timeout \in Timeouts :
          det' = [det EXCEPT !.pc = "loop", !.op = "wait_for_manual_solve",
                             !.ret = None, !.timeout = timeout,
                             !.elapsed = 0, !.polls = 0, !.clean_polls = 0]
    /\ UNCHANGED DetFrame

\* What ends the polling loop once a poll saw no captcha, as the variant
\* that keeps polling until the timeout.
AfterCleanPollKeepsWaiting(is_captcha) == "sleep"

\* if not is_captcha: ... time.sleep(2); return True
AfterCleanPoll(is_captcha) == IF is_captcha THEN "sleep" ELSE "solved"

\* while time.time() - start_time < timeout
KeepsPolling(elapsed, timeout) == elapsed < timeout

\* One turn of the loop: the test, then the silent check; past the timeout
\* "Timeout waiting for captcha to be solved!" and return False.
Poll ==
    /\ det.pc = "loop"
    /\ LET is_captcha == silent_captcha_check(det.page)
           seen == IF is_captcha THEN [det EXCEPT !.polls = @ + 1]
                   ELSE [det EXCEPT !.clean_polls = @ + 1]
       IN det' = IF ~KeepsPolling(det.elapsed, det.timeout)
                 THEN [det EXCEPT !.pc = "returned", !.ret = "False"]
                 ELSE [seen EXCEPT !.pc = AfterCleanPoll(is_captcha)]
    /\ UNCHANGED DetFrame

\* time.sleep(3) between two polls.
PollSleep ==
    /\ det.pc = "sleep"
    /\ \E over \in 0..MaxOversleep :
          det' = [det EXCEPT !.pc = "loop", !.elapsed = @ + PollInterval + over]
    /\ UNCHANGED DetFrame

\* "Captcha appears to be solved!", time.sleep(2), return True.
SolvedReturn ==
    /\ det.pc = "solved"
    /\ \E over \in 0..MaxOversleep :
          det' = [det EXCEPT !.pc = "returned", !.ret = "True",
                             !.elapsed = @ + SolvedPause + over]
    /\ UNCHANGED DetFrame

\* While the function waits the user solves the captcha, or the site shows
\* another page.
PageChanges ==
    /\ det.pc \in {"loop", "sleep"}
    /\ \E pg \in NavPages \ {det.page} : det' = [det EXCEPT !.page = pg]
    /\ UNCHANGED DetFrame

NextDetect ==
    \/ IsCaptchaPresent
    \/ IsBlocked
    \/ StartWait
    \/ Poll
    \/ PollSleep
    \/ SolvedReturn
    \/ PageChanges

SpecDetect == InitDetect /\ [][NextDetect]_vars

\* The steps of wait_for_manual_solve are those of one sequential call:
\* each is taken once it is enabled. Nothing obliges the page to change.
SpecDetectLive ==
    /\ SpecDetect
    /\ WF_vars(Poll) /\ WF_vars(PollSleep) /\ WF_vars(SolvedReturn)

\* ------------------------------------------------------------------------
\* Spec: a ProtectedScraper and its callers
\* ------------------------------------------------------------------------

\* The pools a ProtectedScraper is constructed with: no proxy, one, two, ...
Pools == {SubSeq(ProxyNames, 1, n) : n \in 0..MaxProxies}

Init ==
    /\ pm \in {ProxyManagerInit(l) : l \in Pools}
    /\ pmh = PmhInit
    /\ tm = ThrottleManagerInit
    /\ th = ThInit
    /\ ps = ProtectedScraperInit
    /\ nav = NavIdle
    /\ wk = WkIdle
    /\ site = SiteIdle
    /\ det = DetIdle
    /\ ld = LdIdle
    /\ fg = FgIdle
    /\ hs = HsIdle
    /\ az = AzIdle

World == [pm |-> pm, tm |-> tm, ps |-> ps, log |-> <<>>, raised |-> FALSE,
          page |-> <<>>]

Count(log, call) == Cardinality({i \in 1..Len(log) : log[i] = call})

NavRunning == nav.pc \in {"try", "except"}

\* Environment choices of one start of a browser session.
StartChoices(picks) == {[chrome_ok |-> ok, pick |-> p] : ok \in BOOLEAN, p \in picks}

\* A caller may begin a public operation.
CallerMayCall ==
    /\ ~NavRunning
    /\ ps.calls < MaxCalls

\* The world after an operation, with the call counted, becomes the state.
Commit(w) ==
    /\ pm' = w.pm
    /\ tm' = w.tm
    /\ ps' = w.ps

\* The same for a public operation other than navigate_with_protection; the
\* frame of an earlier navigation is gone.
Called(w, op) ==
    /\ Commit([w EXCEPT !.ps.calls = @ + 1])
    /\ nav' = [NavIdle EXCEPT !.op = op]

\* `continue` and the end of the except clause: the next iteration of
\* `for attempt in range(retries)`, or "All retry attempts failed" / return False.
NextAttempt(n) ==
    IF n.attempt + 1 < n.retries
    THEN [n EXCEPT !.pc = "try", !.attempt = @ + 1]
    ELSE [n EXCEPT !.pc = "returned", !.attempt = @ + 1, !.result = "False"]

\* navigate_with_protection(url, max_retries): entry, up to the first attempt.
StartNavigate ==
    /\ CallerMayCall
    /\ Tracked(Mul(tm.backoff_multiplier, Q_0_9))
    /\ \E given \in BOOLEAN, n \in 0..MaxRetriesArg :
          /\ given \/ n = 0
          /\ nav' = [NavIdle EXCEPT !.pc = "try", !.given = given,
                                    !.op = "navigate_with_protection",
                                    !.max_retries = n,
                                    !.retries = Retries(given, n)]
    /\ ps' = [ps EXCEPT !.calls = @ + 1]
    /\ UNCHANGED <<pm, pmh, tm, th, wk, site, det, ld, fg, hs, az>>

\* How the try block of one attempt ends: the world it leaves, and the frame
\* with the attempt counted. `ending` is "success", "continue" or "exception".
TryEnds(w, ending, was_blocked) ==
    LET n1 == [nav EXCEPT !.log = w.log,
                          !.page = w.page,
                          !.attempts = @ + 1,
                          !.blocked = IF was_blocked THEN @ + 1 ELSE @,
                          !.rotations = @ + Count(w.log, "rotate_ip")]
    IN /\ Commit(w)
       /\ nav' = IF ending = "exception" THEN [n1 EXCEPT !.pc = "except"]
                 ELSE IF ending = "continue" THEN NextAttempt(n1)
                 ELSE [n1 EXCEPT !.pc = "returned", !.result = "True"]

\* rotate_ip() followed by `continue`, inside the try block.
RotateAndContinue(w, was_blocked) ==
    \E e \in StartChoices(PickSetRotate(w)) :
        LET w1 == rotate_ip(w, FALSE, e)
        IN TryEnds(w1, IF w1.raised THEN "exception" ELSE "continue", was_blocked)

\* What follows wait_for_manual_solve, as the variant that goes on with the
\* page whether or not the captcha was solved.
AfterManualSolveIgnoringTimeout(solved) == "proceed"

\* if not solved: self.rotate_ip(); continue
AfterManualSolve(solved) == IF solved THEN "proceed" ELSE "rotate"

\* The try block from the block check on, for the page the browser shows.
Classify(w, page) ==
    IF is_blocked(page)
    THEN RotateAndContinue([Logged(w, "report_error:block")
                               EXCEPT !.tm = report_error(w.tm, "block")], TRUE)
    ELSE IF is_captcha_present(page) /= None
    THEN \E solved \in BOOLEAN :
            LET w1 == Logged(w, IF solved THEN "wait_for_manual_solve:solved"
                                ELSE "wait_for_manual_solve:timeout")
            IN IF AfterManualSolve(solved) = "rotate"
               THEN RotateAndContinue(w1, FALSE)
               ELSE TryEnds([Logged(w1, "report_success")
                               EXCEPT !.tm = report_success(w1.tm)], "success", FALSE)
    ELSE TryEnds([Logged(w, "report_success")
                     EXCEPT !.tm = report_success(w.tm)], "success", FALSE)

\* driver.get(url) and the WebDriverWait for <body>: either raises, or the
\* browser shows some page.
GetAndClassify(w) ==
    \/ \E failure \in {"get:error", "load:timeout"} :
          TryEnds(Logged(w, failure), "exception", FALSE)
    \/ \E page \in ServedPages :
          Classify([Logged(w, "get") EXCEPT !.page = <<page>>], page)

\* The try block of one attempt: throttle, ensure a driver, navigate, wait
\* for the page, block check, captcha check, success.
AttemptTry ==
    /\ nav.pc = "try"
    /\ LET w0 == [Logged(World, "wait") EXCEPT !.tm = wait(tm)]
       IN IF ps.driver /= NoDriver
          THEN GetAndClassify(w0)
          ELSE \E e \in StartChoices(PickSetStart(w0)) :
                  LET w1 == start_driver(w0, FALSE, e)
                  IN IF w1.raised THEN TryEnds(w1, "exception", FALSE)
                     ELSE GetAndClassify(w1)
    /\ UNCHANGED <<pmh, th, wk, site, det, ld, fg, hs, az>>

\* The guard of the rotation in the except clause, as the variant that
\* rotates after the last attempt too.
RotatesAfterErrorAlways(attempt, retries) == TRUE

\* if attempt < retries - 1: self.rotate_ip()
RotatesAfterError(attempt, retries) == attempt < retries - 1

\* except Exception: report_error("generic"), rotate unless it was the last
\* attempt. An exception of that rotate_ip leaves the function.
AttemptExcept ==
    /\ nav.pc = "except"
    /\ LET w0 == [World EXCEPT !.log = nav.log]
           w1 == [Logged(w0, "report_error:generic")
                     EXCEPT !.tm = report_error(tm, "generic")]
           rotates == RotatesAfterError(nav.attempt, nav.retries)
       IN \E e \in StartChoices(IF rotates THEN PickSetRotate(w1) ELSE {None}) :
          LET w2 == IF rotates THEN rotate_ip(w1, FALSE, e) ELSE w1
              n1 == [nav EXCEPT !.log = w2.log,
                                !.rotations = @ + Count(w2.log, "rotate_ip")
                                                - Count(nav.log, "rotate_ip")]
          IN /\ rotates \/ e.chrome_ok
             /\ Commit(w2)
             /\ nav' = IF w2.raised THEN [n1 EXCEPT !.pc = "raised"]
                       ELSE NextAttempt(n1)
    /\ UNCHANGED <<pmh, th, wk, site, det, ld, fg, hs, az>>

StartDriver ==
    /\ CallerMayCall
    /\ \E new_fingerprint \in BOOLEAN, e \in StartChoices(PickSetStart(World)) :
          Called(start_driver(World, new_fingerprint, e), "start_driver")
    /\ UNCHANGED <<pmh, th, wk, site, det, ld, fg, hs, az>>

RotateIp ==
    /\ CallerMayCall
    /\ \E e \in StartChoices(PickSetRotate(World)) :
          Called(rotate_ip(World, FALSE, e), "rotate_ip")
    /\ UNCHANGED <<pmh, th, wk, site, det, ld, fg, hs, az>>

NewIdentity ==
    /\ CallerMayCall
    /\ \E e \in StartChoices(PickSetRotate(World)) :
          Called(new_identity(World, e), "new_identity")
    /\ UNCHANGED <<pmh, th, wk, site, det, ld, fg, hs, az>>

GetDriver ==
    /\ CallerMayCall
    /\ \E e \in StartChoices(IF ps.driver = NoDriver THEN PickSetStart(World) ELSE {None}) :
          /\ (ps.driver /= NoDriver) => e.chrome_ok
          /\ Called(get_driver(World, e), "get_driver")
    /\ UNCHANGED <<pmh, th, wk, site, det, ld, fg, hs, az>>

Cleanup ==
    /\ CallerMayCall
    /\ Called(cleanup(World), "cleanup")
    /\ UNCHANGED <<pmh, th, wk, site, det, ld, fg, hs, az>>

Next ==
    \/ StartNavigate
    \/ AttemptTry
    \/ AttemptExcept
    \/ StartDriver
    \/ RotateIp
    \/ NewIdentity
    \/ GetDriver
    \/ Cleanup

Spec == Init /\ [][Next]_vars

\* ------------------------------------------------------------------------
\* Properties of navigate_with_protection (checked under Spec)
\* ------------------------------------------------------------------------

NavEnded == nav.pc \in {"returned", "raised"}

\* C1: if every attempt of a call was classified as blocked, the call returns
\* False having invoked rotate_ip exactly retries - 1 times.
C1_AllBlockedRotations ==
    (NavEnded /\ nav.attempts >= 1 /\ nav.blocked = nav.attempts) =>
        /\ nav.pc = "returned"
        /\ nav.result = "False"
        /\ nav.rotations = nav.retries - 1

\* C2: navigate_with_protection never propagates an exception: whatever the
\* outcomes of its steps, the call ends by returning True or False.
C2_NeverRaises ==
    NavEnded => (nav.pc = "returned" /\ nav.result \in {"True", "False"})

\* ------------------------------------------------------------------------
\* AmazonHTMLScraper (src/scraper/worker.py) run by main() (src/html_scraper.py)
\*
\* site is the browser session: the URL it is at, as <<kind, page index>>,
\* the features of the page it shows, a navigation that completes late, and
\* `last`, the index of the last reviews page of the listing. wk holds the
\* scraper's fields, the locals of scrape_product_to_reviews and what is
\* observed about the run: why the loop stopped, the fault met, whether the
\* run was without incident so far, and per loop iteration the confirmation
\* waits, the clicks and the blocks persisted when it began.
\* ------------------------------------------------------------------------
MAX_REVIEW_PAGES == 500

SiteSizes == (1..MaxSitePages) \cup {MAX_REVIEW_PAGES + 1}

\* Features of a page that check_for_blocks and _looks_like_last_page read.
StubMarks == {"captcha_indicator", "under_5000", "source_error"}
LastPageMarks == {"no_reviews", "title_404"}

\* What a navigation to a product or reviews page may end at: the page asked
\* for or a redirect, showing a normal page or one stub feature.
Served(kind, idx) ==
    {[url |-> <<k, idx>>, page |-> pg] :
        k \in {kind, "signin", "register", "captcha"},
        pg \in {{}} \cup {{m} : m \in StubMarks}}

\* What the browser may show after a click on 'next' took effect.
ServedNext(idx) ==
    {[url |-> <<k, idx>>, page |-> pg] :
        k \in {"reviews", "signin", "captcha"},
        pg \in {{}} \cup {{m} : m \in LastPageMarks}}

Normal(kind, served) == served.url[1] = kind /\ served.page = {}

\* check_for_blocks(driver) of src/scraper/detection.py: is_blocked.
check_for_blocks(url, page) ==
    \/ url[1] \in {"signin", "register"}
    \/ url[1] = "captcha"
    \/ "captcha_indicator" \in page
    \/ "under_5000" \in page
    \/ "source_error" \in page

\* _is_blocked_or_redirected(): the reason to stop, or None.
is_blocked_or_redirected(url) ==
    IF url[1] = "captcha" THEN "captcha"
    ELSE IF url[1] = "signin" THEN "login"
    ELSE None

\* _looks_like_last_page()
looks_like_last_page(page) == "no_reviews" \in page \/ "title_404" \in page

\* The label of a persisted block, as the variant that numbers a reviews
\* page before page_number is advanced.
LabelBeforeIncrement(kind, n) ==
    [kind |-> kind, n |-> IF kind = "reviews_page" /\ n > 1 THEN n - 1 ELSE n]

\* The label of a persisted block.
Label(kind, n) == [kind |-> kind, n |-> n]

\* save_html_to_single_file, as the variant that opens the file for writing
\* instead of appending.
SavedOverwriting(w, label, url) ==
    [w EXCEPT !.output_file = <<[label |-> label, url |-> url]>>,
              !.total_pages = @ + 1,
              !.total_bytes = @ + PageLen]

\* The persist step, as the variant that forgets to count the page.
SavedWithoutCount(w, label, url) ==
    [w EXCEPT !.output_file = Append(@, [label |-> label, url |-> url]),
              !.total_bytes = @ + PageLen]

\* save_html_to_single_file(driver, output_file, label): append one block and
\* count it (self.total_pages += 1; self.total_bytes += size).
Saved(w, label, url) ==
    [w EXCEPT !.output_file = Append(@, [label |-> label, url |-> url]),
              !.total_pages = @ + 1,
              !.total_bytes = @ + PageLen]

\* The function returns `value` ("True" or "False"); main() calls stop() next.
Returned(w, value, reason) ==
    [w EXCEPT !.pc = "returned", !.result = value, !.stop_reason = reason]

\* An exception leaves scrape_product_to_reviews.
Raised(w, fault) ==
    [w EXCEPT !.pc = "raised", !.fault = fault, !.nominal = FALSE]

\* Every `break` falls through to "SCRAPING COMPLETE" and `return True`.
BreakResult(reason) == "True"

Break(w, reason) == Returned(w, BreakResult(reason), reason)

InitWorker ==
    /\ pm = ProxyManagerInit(<<>>)
    /\ pmh = PmhInit
    /\ tm = ThrottleManagerInit
    /\ th = ThInit
    /\ ps = ProtectedScraperInit
    /\ nav = NavIdle
    /\ wk = [WkIdle EXCEPT !.pc = "new"]
    /\ site \in {[SiteIdle EXCEPT !.last = n] : n \in SiteSizes}
    /\ det = DetIdle
    /\ ld = LdIdle
    /\ fg = FgIdle
    /\ hs = HsIdle
    /\ az = AzIdle

OtherVars == <<pm, pmh, tm, th, ps, nav, det, ld, fg, hs, az>>

\* start(): create the driver, create the output file with its header line
\* (the file then holds no page block). create_driver() raising leaves
\* start() before either is assigned.
Start ==
    /\ wk.pc = "new"
    /\ \/ wk' = [wk EXCEPT !.pc = "s1_get", !.driver = Chrome, !.output_file = <<>>]
       \/ wk' = [wk EXCEPT !.pc = "start_failed", !.nominal = FALSE]
    /\ UNCHANGED <<site, OtherVars>>

\* The places where scrape_product_to_reviews waits on the browser or sleeps.
TraversalPoints == {"s1_get", "s1_check", "s2_find", "s3_get", "s3_check",
                    "loop", "click", "after_click", "confirm", "advance"}

\* A KeyboardInterrupt is raised inside scrape_product_to_reviews.
Interrupt ==
    /\ wk.pc \in TraversalPoints
    /\ wk' = [wk EXCEPT !.pc = "interrupted", !.nominal = FALSE,
                         !.clicks = <<>>]
    /\ UNCHANGED <<site, OtherVars>>

\* Step 1: self.driver.get(product_url); a TimeoutException returns False.
LoadProduct ==
    /\ wk.pc = "s1_get"
    /\ \/ /\ wk' = [Returned(wk, "False", "timeout")
                       EXCEPT !.fault = "timeout:product", !.nominal = FALSE]
          /\ UNCHANGED site
       \/ \E served \in Served("product", 0) :
             /\ site' = [site EXCEPT !.url = served.url, !.page = served.page]
             /\ wk' = [wk EXCEPT !.pc = "s1_check",
                                 !.nominal = @ /\ Normal("product", served)]
    /\ UNCHANGED OtherVars

\* Step 1 after the wait, as the variant that persists the page before it
\* looks for blocks.
CheckProductSavingFirst ==
    /\ wk.pc = "s1_check"
    /\ LET w1 == Saved(wk, Label("product_page", 0), site.url)
       IN wk' = IF check_for_blocks(site.url, site.page)
                THEN Returned(w1, "False", "blocked")
                ELSE [w1 EXCEPT !.pc = "s2_find"]
    /\ UNCHANGED <<site, OtherVars>>

\* Step 1, after the wait: check_for_blocks, then persist "product_page".
CheckProduct ==
    /\ wk.pc = "s1_check"
    /\ wk' = IF check_for_blocks(site.url, site.page)
             THEN Returned(wk, "False", "blocked")
             ELSE [Saved(wk, Label("product_page", 0), site.url)
                      EXCEPT !.pc = "s2_find"]
    /\ UNCHANGED <<site, OtherVars>>

\* Step 2: human_scroll for the 'see all reviews' link, then the CSS lookup;
\* its href (None, site-relative or absolute) is read and, after the wait,
\* href.startswith("/") is evaluated.
FindSeeMore ==
    /\ wk.pc = "s2_find"
    /\ \/ wk' = [Returned(wk, "False", "no_see_more") EXCEPT !.nominal = FALSE]
       \/ \E by_scroll \in BOOLEAN, href \in {None, "relative", "absolute"} :
             wk' = IF href = None
                   THEN Raised(wk, "no_href")
                   ELSE [wk EXCEPT !.pc = "s3_get", !.href = "absolute"]
    /\ UNCHANGED <<site, OtherVars>>

\* Step 3: self.driver.get(href), outside any try block.
LoadReviews ==
    /\ wk.pc = "s3_get"
    /\ \/ /\ wk' = Raised(wk, "timeout:reviews_page_1")
          /\ UNCHANGED site
       \/ \E served \in Served("reviews", 1) :
             /\ site' = [site EXCEPT !.url = served.url, !.page = served.page]
             /\ wk' = [wk EXCEPT !.pc = "s3_check",
                                 !.nominal = @ /\ Normal("reviews", served)]
    /\ UNCHANGED OtherVars

\* Steps 3 and 4: check_for_blocks, scroll the page, persist "reviews_page_1",
\* page_number = 1.
CheckReviews ==
    /\ wk.pc = "s3_check"
    /\ wk' = IF check_for_blocks(site.url, site.page)
             THEN Returned(wk, "False", "blocked")
             ELSE [Saved(wk, Label("reviews_page", 1), site.url)
                      EXCEPT !.pc = "loop", !.page_number = 1]
    /\ UNCHANGED <<site, OtherVars>>

\* The page the browser shows offers a 'next' affordance.
HasNext == site.url[1] = "reviews" /\ site.url[2] < site.last

\* The loop test, as the variant that admits one page more.
WithinBoundInclusive(page_number) == page_number <= MAX_REVIEW_PAGES

\* while page_number < MAX_REVIEW_PAGES
WithinBound(page_number) == page_number < MAX_REVIEW_PAGES

\* The loop head and parts A to C: the bound, the search for 'next' by
\* scrolling and by the fallback selectors, the captcha / login re-check.
LoopHead ==
    /\ wk.pc = "loop"
    /\ LET w0 == [wk EXCEPT !.confirm_waits = 0, !.iter_clicks = 0,
                            !.iter_saved = Len(wk.output_file), !.next_href = <<>>]
       IN IF ~WithinBound(wk.page_number)
          THEN wk' = Returned(w0, "True", "max_pages")
          ELSE \E by_scroll \in BOOLEAN, stray \in BOOLEAN :
                  LET found == HasNext \/ (site.url[1] /= "reviews" /\ stray)
                      reason == is_blocked_or_redirected(site.url)
                  IN /\ HasNext => ~stray
                     /\ found \/ (~by_scroll /\ ~stray)
                     /\ wk' = IF ~found THEN Break(w0, "no_next")
                              ELSE IF reason /= None THEN Break(w0, reason)
                              ELSE [w0 EXCEPT !.pc = "click"]
    /\ UNCHANGED <<site, OtherVars>>

\* The ways _click_next_page tries to follow the button, in the order tried:
\* execute_script("arguments[0].click();"), on an exception element.click(),
\* on an exception driver.get(next_href) if the button has an href, else
\* "Cannot click 'Next page'" and return None.
click_next_page(script_ok, element_ok, href) ==
    IF script_ok THEN <<"script_click">>
    ELSE IF element_ok THEN <<"script_click", "element_click">>
    ELSE IF href /= None THEN <<"script_click", "element_click", "get">>
    ELSE <<"script_click", "element_click", "return_none">>

\* Part D, _click_next_page: the script click, else the element click, else
\* driver.get(next_href) when the affordance has an href. `effect` tells when
\* the browser leaves the current URL: at once, during a later wait or never.
ClickNext ==
    /\ wk.pc = "click"
    /\ LET Clicked(w0, effect, served) ==
               /\ wk' = [w0 EXCEPT !.pc = "after_click",
                                   !.nominal = @ /\ effect /= "never"
                                                 /\ Normal("reviews", served)]
               /\ site' = IF effect = "now"
                          THEN [site EXCEPT !.url = served.url, !.page = served.page]
                          ELSE IF effect = "late"
                          THEN [site EXCEPT !.pending = <<served>>]
                          ELSE site
       IN \E script_ok \in BOOLEAN, element_ok \in BOOLEAN,
             href \in {None, "href"} :
             LET tried == click_next_page(script_ok, element_ok, href)
                 w0 == [wk EXCEPT !.next_href = site.url, !.iter_clicks = @ + 1,
                                  !.clicks = tried]
                 last == tried[Len(tried)]
             IN IF last \in {"script_click", "element_click"}
                THEN \E effect \in {"now", "late", "never"},
                        served \in ServedNext(site.url[2] + 1) :
                           /\ (effect = "never") => Normal("reviews", served)
                           /\ Clicked(w0, effect, served)
                ELSE IF last = "return_none"
                THEN /\ wk' = [Break(w0, "click_failed")
                                  EXCEPT !.nominal = FALSE, !.iter_clicks = 0]
                     /\ UNCHANGED site
                ELSE \/ /\ wk' = Raised(w0, "timeout:next_href")
                        /\ UNCHANGED site
                     \/ \E served \in ServedNext(site.url[2] + 1) :
                           Clicked(w0, "now", served)
    /\ UNCHANGED OtherVars

\* The decision after the confirmation wait, as the variant that goes on
\* with the page although the URL never changed.
AfterConfirmIgnoring(unchanged) == "advance"

\* if self.driver.current_url == next_href: "Page did not change" / break
AfterConfirm(unchanged) == IF unchanged THEN "break" ELSE "advance"

\* Part E: after the page-load wait, compare current_url with the pre-click URL.
AfterClick ==
    /\ wk.pc = "after_click"
    /\ wk' = [wk EXCEPT !.pc = IF site.url = wk.next_href THEN "confirm" ELSE "advance",
                         !.clicks = <<>>]
    /\ UNCHANGED <<site, OtherVars>>

\* Part E, "URL unchanged after click": time.sleep(3), during which a late
\* navigation completes, then the second comparison.
ConfirmWait ==
    /\ wk.pc = "confirm"
    /\ LET s1 == IF site.pending /= <<>>
                 THEN [site EXCEPT !.url = site.pending[1].url,
                                   !.page = site.pending[1].page,
                                   !.pending = <<>>]
                 ELSE site
           unchanged == s1.url = wk.next_href
           w1 == [wk EXCEPT !.confirm_waits = @ + 1, !.stalled = unchanged]
       IN /\ site' = s1
          /\ wk' = IF AfterConfirm(unchanged) = "break"
                   THEN Break(w1, "url_unchanged")
                   ELSE [w1 EXCEPT !.pc = "advance"]
    /\ UNCHANGED OtherVars

\* The end of one iteration, as the variant that persists the page before
\* it looks for the last-page signal.
AdvancedSavingFirst(w, page, url) ==
    LET w1 == [w EXCEPT !.page_number = @ + 1]
        w2 == Saved(w1, Label("reviews_page", w1.page_number), url)
    IN IF looks_like_last_page(page)
       THEN Break(w2, "last_page_signal")
       ELSE [w2 EXCEPT !.pc = "loop"]

\* page_number += 1; if self._looks_like_last_page(): break; part F:
\* save_html_to_single_file(..., f"reviews_page_{page_number}").
Advanced(w, page, url) ==
    LET w1 == [w EXCEPT !.page_number = @ + 1]
    IN IF looks_like_last_page(page)
       THEN Break(w1, "last_page_signal")
       ELSE [Saved(w1, Label("reviews_page", w1.page_number), url)
                EXCEPT !.pc = "loop"]

\* page_number += 1; _looks_like_last_page(); part F: persist the page.
Advance ==
    /\ wk.pc = "advance"
    /\ wk' = Advanced(wk, site.page, site.url)
    /\ UNCHANGED <<site, OtherVars>>

\* stop(), as the variant that logs the summary and leaves the browser open.
StoppedKeepingDriver(w) == [w EXCEPT !.stopped = TRUE]

\* stop(): log the summary; if self.driver: quit it and set it to None.
Stopped(w) == [w EXCEPT !.stopped = TRUE, !.driver = None]

\* The ways control leaves the try block of main() towards a stop() call.
MainLeaves == {"returned", "raised", "interrupted", "start_failed"}

\* main(): scraper.stop(...) after the function returned, or in the handler
\* of KeyboardInterrupt, or in the handler of Exception.
Stop ==
    /\ wk.pc \in MainLeaves
    /\ ~wk.stopped
    /\ wk' = Stopped(wk)
    /\ UNCHANGED <<site, OtherVars>>

\* The status main() hands to sys.exit after stop().
ExitStatus(w) ==
    IF w.pc = "returned" THEN (IF w.result = "True" THEN "0" ELSE "1")
    ELSE IF w.pc = "interrupted" THEN "130"
    ELSE "1"

\* main(): sys.exit(...), the statement after each stop() call.
Exit ==
    /\ wk.pc \in MainLeaves
    /\ wk.stopped
    /\ wk.exit_code = None
    /\ wk' = [wk EXCEPT !.exit_code = ExitStatus(wk)]
    /\ UNCHANGED <<site, OtherVars>>

NextWorker ==
    \/ Start
    \/ LoadProduct
    \/ CheckProduct
    \/ FindSeeMore
    \/ LoadReviews
    \/ CheckReviews
    \/ LoopHead
    \/ ClickNext
    \/ AfterClick
    \/ ConfirmWait
    \/ Advance
    \/ Interrupt
    \/ Stop
    \/ Exit

SpecWorker == InitWorker /\ [][NextWorker]_vars

\* main() is one sequential program: its next step is taken whenever there
\* is one.
SpecWorkerLive == SpecWorker /\ WF_vars(NextWorker)

\* ------------------------------------------------------------------------
\* SpecLoader: the raw-page file written by save_html_to_single_file and
\* read back by split_pages
\* ------------------------------------------------------------------------
\* Text is a sequence of tokens: a whitespace character, a run of other
\* characters, or one delimiter block (rule, PAGE, URL, TIMESTAMP, SIZE, rule).
Ws == [t |-> "ws", h |-> <<>>]
Tx == [t |-> "text", h |-> <<>>]
Header(label, url, timestamp, size) ==
    [t |-> "header", h |-> <<label, url, timestamp, size>>]

\* A delimiter-shaped block inside the content of a page.
QuotedHeader == Header(Label("reviews_page", 0), <<"quoted", 0>>, 0, 0)

\* Page contents: any text of at most MaxHtml tokens.
Htmls == SeqsUpTo({Ws, Tx, QuotedHeader}, MaxHtml)

\* Files without any delimiter block.
PlainTexts == SeqsUpTo({Ws, Tx}, MaxHtml)

\* The comment line start() writes into the new file.
StartedLine == <<Tx, Ws>>

\* str.strip(): drop the leading and the trailing whitespace.
RECURSIVE LStrip(_)
LStrip(s) == IF s /= <<>> /\ Head(s) = Ws THEN LStrip(Tail(s)) ELSE s

RECURSIVE RStrip(_)
RStrip(s) ==
    IF s /= <<>> /\ s[Len(s)] = Ws THEN RStrip(SubSeq(s, 1, Len(s) - 1)) ELSE s

Strip(s) == RStrip(LStrip(s))

\* The separator of save_html_to_single_file: two newlines, the delimiter
\* block, two newlines.
Separator(label, url, timestamp, html) ==
    <<Ws, Ws, Header(label, url, timestamp, Len(html)), Ws, Ws>>

\* save_html_to_single_file: open(output_file, "a"), write the separator,
\* write the page source.
save_html_to_single_file(raw, label, url, timestamp, html) ==
    raw \o Separator(label, url, timestamp, html) \o html

\* PAGE_HEADER.finditer(raw_content): the positions of the delimiter blocks,
\* in order.
RECURSIVE Separators(_, _)
Separators(raw_content, from) ==
    IF from > Len(raw_content) THEN <<>>
    ELSE IF raw_content[from].t = "header"
         THEN <<from>> \o Separators(raw_content, from + 1)
         ELSE Separators(raw_content, from + 1)

\* BeautifulSoup(markup, "lxml"): the document, kept as the markup it was
\* parsed from.
BeautifulSoup(markup) == [markup |-> markup]

\* The single page of a file without separators, as the variant that strips
\* the input like the per-page branch does.
FullFileStripped(raw_content) ==
    <<[label |-> "full_file", url |-> "", timestamp |-> "",
       soup |-> BeautifulSoup(Strip(raw_content))]>>

\* split_pages, no separators: the whole file is one page.
FullFile(raw_content) ==
    <<[label |-> "full_file", url |-> "", timestamp |-> "",
       soup |-> BeautifulSoup(raw_content)]>>

\* split_pages(raw_content): for each separator the stripped groups 1 to 3
\* and the stripped text up to the next separator or the end of the file.
split_pages(raw_content) ==
    LET separators == Separators(raw_content, 1)
    IN IF separators = <<>> THEN FullFile(raw_content)
       ELSE [i \in 1..Len(separators) |->
               LET match == raw_content[separators[i]]
                   start == separators[i] + 1
                   end == IF i + 1 <= Len(separators)
                          THEN separators[i + 1] - 1
                          ELSE Len(raw_content)
               IN [label |-> match.h[1], url |-> match.h[2],
                   timestamp |-> match.h[3],
                   soup |-> BeautifulSoup(Strip(SubSeq(raw_content, start, end)))]]

\* Either a fresh output file of start(), or any text without delimiters.
InitLoader ==
    /\ pm = ProxyManagerInit(<<>>)
    /\ pmh = PmhInit
    /\ tm = ThrottleManagerInit
    /\ th = ThInit
    /\ ps = ProtectedScraperInit
    /\ nav = NavIdle
    /\ wk = WkIdle
    /\ site = SiteIdle
    /\ det = DetIdle
    /\ ld \in {[LdIdle EXCEPT !.pc = "file", !.raw = text] : text \in PlainTexts}
    /\ fg = FgIdle
    /\ hs = HsIdle
    /\ az = AzIdle

LdFrame == <<pm, pmh, tm, th, ps, nav, wk, site, det, fg, hs, az>>

\* One more page is appended to the output file of start(): the k-th page
\* carries the k-th label and URL of a traversal and the time of writing.
SaveHtml ==
    /\ ld.pc = "file"
    /\ ld.raw = StartedLine \/ ld.written /= <<>>
    /\ Len(ld.written) < MaxPagesWritten
    /\ \E html \in Htmls, later \in BOOLEAN :
          LET k == Len(ld.written)
              label == IF k = 0 THEN Label("product_page", 0)
                       ELSE Label("reviews_page", k)
              url == <<"page", k>>
              timestamp == IF later THEN k + 1 ELSE 1
          IN ld' = [ld EXCEPT
                       !.raw = save_html_to_single_file(@, label, url, timestamp, html),
                       !.written = Append(@, [label |-> label, url |-> url,
                                              timestamp |-> timestamp,
                                              html |-> html])]
    /\ UNCHANGED LdFrame

\* run.py: split_pages(load_html(path)).
SplitPages ==
    /\ ld.pc = "file"
    /\ ld' = [ld EXCEPT !.pc = "split", !.pages = split_pages(ld.raw)]
    /\ UNCHANGED LdFrame

NextLoader == SaveHtml \/ SplitPages

SpecLoader == InitLoader /\ [][NextLoader]_vars

\* ------------------------------------------------------------------------
\* SpecFingerprint: BrowserFingerprint objects (src/fingerprint.py)
\* ------------------------------------------------------------------------
Seeds == 0..MaxSeed

SCREEN_RESOLUTIONS ==
    << <<1920, 1080>>, <<1366, 768>>, <<1536, 864>>, <<1440, 900>>,
       <<1280, 720>>, <<1600, 900>>, <<2560, 1440>>, <<1280, 800>>,
       <<1680, 1050>>, <<1360, 768>>, <<1920, 1200>>, <<2560, 1080>> >>
\* The other tables, by the position of the entry.
USER_AGENTS == <<"ua1", "ua2", "ua3", "ua4", "ua5", "ua6", "ua7">>
LANGUAGES == <<"en-US", "en-GB", "en-IN">>
TIMEZONES == <<"Asia/Kolkata", "America/New_York", "America/Los_Angeles",
               "Europe/London">>
WEBGL_CONFIGS == <<"gtx1650", "rtx3060", "uhd630", "rx580", "irisxe", "rtx2070">>

\* A pseudo-random generator is a state; every draw advances it.
RngNext(state) == (5 * state + 3) % 16

\* The state after `draws` draws.
RECURSIVE RngAfter(_, _)
RngAfter(state, draws) ==
    IF draws = 0 THEN state ELSE RngAfter(RngNext(state), draws - 1)

\* rng.choice(table), rng.randint(a, b) and rng.uniform(a, b) as the
\* draws-th draw of a generator started in `state`.
Choice(table, state, draws) == table[(RngAfter(state, draws) % Len(table)) + 1]
RandInt(a, b, state, draws) == a + (RngAfter(state, draws) % (b - a + 1))
Uniform(state, draws) == RngAfter(state, draws)

\* The generator of a fingerprint, as the variant that draws from the
\* module-level generator of `random`, which every other caller advances.
RngOfModule(seed, module_rng) == module_rng

\* self._rng = random.Random(seed): a generator of its own, started from
\* the seed alone.
Rng(seed, module_rng) == seed % 16

\* hashlib.md5(f"{kind}-{seed}-{user_agent}-{screen_width}").hexdigest()[:16]
Md5(kind, seed, user_agent, screen_width) ==
    <<kind, seed, user_agent, screen_width>>

\* BrowserFingerprint(seed): _generate_fingerprint and _generate_ids
\* (pixel_ratio [1, 1.25, 1.5, 2] in hundredths).
BrowserFingerprint(seed, module_rng) ==
    LET rng == Rng(seed, module_rng)
        screen_resolution == Choice(SCREEN_RESOLUTIONS, rng, 1)
        user_agent == Choice(USER_AGENTS, rng, 6)
    IN [seed |-> seed,
        screen_resolution |-> screen_resolution,
        color_depth |-> Choice(<<24, 32>>, rng, 2),
        pixel_ratio |-> Choice(<<100, 125, 150, 200>>, rng, 3),
        window_width |-> screen_resolution[1] - RandInt(0, 100, rng, 4),
        window_height |-> screen_resolution[2] - RandInt(60, 150, rng, 5),
        user_agent |-> user_agent,
        languages |-> Choice(LANGUAGES, rng, 7),
        timezone |-> Choice(TIMEZONES, rng, 8),
        webgl |-> Choice(WEBGL_CONFIGS, rng, 9),
        hardware_concurrency |-> Choice(<<4, 6, 8, 12, 16>>, rng, 10),
        device_memory |-> Choice(<<4, 8, 16, 32>>, rng, 11),
        platform |-> Choice(<<"Win32">>, rng, 12),
        canvas_noise |-> Uniform(rng, 13),
        audio_noise |-> Uniform(rng, 14),
        canvas_hash |-> Md5("canvas", seed, user_agent, screen_resolution[1]),
        webgl_hash |-> Md5("webgl", seed, user_agent, screen_resolution[1]),
        audio_hash |-> Md5("audio", seed, user_agent, screen_resolution[1])]

InitFingerprint ==
    /\ pm = ProxyManagerInit(<<>>)
    /\ pmh = PmhInit
    /\ tm = ThrottleManagerInit
    /\ th = ThInit
    /\ ps = ProtectedScraperInit
    /\ nav = NavIdle
    /\ wk = WkIdle
    /\ site = SiteIdle
    /\ det = DetIdle
    /\ ld = LdIdle
    /\ fg = FgIdle
    /\ hs = HsIdle
    /\ az = AzIdle

FgFrame == <<pm, pmh, tm, th, ps, nav, wk, site, det, ld, hs, az>>

\* BrowserFingerprint(seed): with seed None the seed is the clock in
\* milliseconds.
NewFingerprint ==
    /\ Len(fg.made) < MaxMade
    /\ \E given \in BOOLEAN, seed \in Seeds, now \in Seeds :
          LET s == IF given THEN seed ELSE now
          IN fg' = [fg EXCEPT !.made = Append(@, BrowserFingerprint(s, fg.module_rng))]
    /\ UNCHANGED FgFrame

\* Any other code draws from the module-level generator (random.choice in
\* get_next_proxy, random.uniform in wait and rotate_ip).
ModuleRandomUse ==
    /\ fg' = [fg EXCEPT !.module_rng = RngNext(@)]
    /\ UNCHANGED FgFrame

NextFingerprint == NewFingerprint \/ ModuleRandomUse

SpecFingerprint == InitFingerprint /\ [][NextFingerprint]_vars

\* ------------------------------------------------------------------------
\* Properties of the detectors (checked under SpecDetect / SpecDetectLive)
\* ------------------------------------------------------------------------
UrlCheck == "url_captcha" \in det.page
TitleCheck == "title_captcha" \in det.page
ElementCheck == "captcha_element" \in det.page
TextCheck == "strong_phrase" \in det.page
SmallCheck ==
    /\ det.page \cap {"under_10000", "under_1000"} /= {}
    /\ "captcha_text" \in det.page

\* C12: is_captcha_present returns the kind of the first check that matches
\* in the order url, title, element, text_pattern, small_page, and returns
\* (False, None) exactly when none of the five matches.
C12_FirstMatchWins ==
    det.op = "is_captcha_present" =>
        /\ UrlCheck => det.ret = "url"
        /\ (~UrlCheck /\ TitleCheck) => det.ret = "title"
        /\ (~UrlCheck /\ ~TitleCheck /\ ElementCheck) => det.ret = "element"
        /\ (~UrlCheck /\ ~TitleCheck /\ ~ElementCheck /\ TextCheck)
              => det.ret = "text_pattern"
        /\ (~UrlCheck /\ ~TitleCheck /\ ~ElementCheck /\ ~TextCheck /\ SmallCheck)
              => det.ret = "small_page"
        /\ (det.ret = None) <=>
              ~(UrlCheck \/ TitleCheck \/ ElementCheck \/ TextCheck \/ SmallCheck)

C12_Witness ==
    /\ det.op = "is_captcha_present" /\ det.ret = "title"
    /\ ~UrlCheck /\ TitleCheck /\ ElementCheck /\ TextCheck /\ SmallCheck

\* C13: a page with a strong captcha phrase, no captcha URL substring, no
\* 'robot' / 'captcha' in the title and no visible captcha marker is
\* classified captcha('text_pattern'), whatever its size.
C13_StrongPhraseIsTextPattern ==
    (det.op = "is_captcha_present" /\ TextCheck
        /\ ~UrlCheck /\ ~TitleCheck /\ ~ElementCheck)
        => det.ret = "text_pattern"

C13_Witness ==
    /\ det.op = "is_captcha_present" /\ det.ret = "text_pattern"
    /\ {"strong_phrase", "captcha_text", "under_1000"} \subseteq det.page

Waiting == det.pc \in {"loop", "sleep", "solved"}

WaitForManualSolveSafe ==
    det.op = "wait_for_manual_solve" =>
        /\ det.clean_polls <= 1
        /\ det.clean_polls = 1 => det.pc \in {"solved", "returned"}
        /\ (det.pc = "returned" /\ det.ret = "True") => det.clean_polls = 1
        /\ (det.pc = "returned" /\ det.clean_polls = 1) => det.ret = "True"
        /\ (det.pc = "returned" /\ det.ret = "False") =>
              (det.elapsed >= det.timeout /\ det.clean_polls = 0)
        /\ PollInterval * (det.polls + det.clean_polls - 1) <= det.elapsed

\* C14: wait_for_manual_solve(timeout) returns True as soon as one of its
\* polls, taken 3 seconds apart, sees no captcha; it returns False only
\* after at least timeout seconds with every poll seeing a captcha; and it
\* always returns, also when the captcha never clears.
C14_WaitForManualSolve ==
    /\ []WaitForManualSolveSafe
    /\ Waiting ~> (det.pc = "returned")

C14_Witness ==
    /\ det.op = "wait_for_manual_solve" /\ det.pc = "returned"
    /\ det.ret = "False" /\ det.timeout > PollInterval /\ det.polls >= 2

\* The page the last attempt was served matches a captcha check: a captcha
\* URL substring, 'robot' / 'captcha' in the title, a visible captcha
\* marker, a strong captcha phrase, or captcha text on a small page.
ServedCaptchaPage ==
    /\ nav.page /= <<>>
    /\ \/ nav.page[1] \cap {"url_captcha", "title_captcha",
                             "captcha_element", "strong_phrase"} /= {}
       \/ /\ "captcha_text" \in nav.page[1]
          /\ nav.page[1] \cap {"under_10000", "under_1000"} /= {}

InLog(call) == \E i \in 1..Len(nav.log) : nav.log[i] = call

\* C11: captcha checks have priority over block checks: an attempt whose
\* page matches a captcha check is handled as a captcha (manual-solve wait,
\* no block backoff), also when the page contains a generic block phrase or
\* is shorter than 1,000 characters.
C11_CaptchaBeforeBlock ==
    ServedCaptchaPage =>
        /\ InLog("wait_for_manual_solve:solved") \/ InLog("wait_for_manual_solve:timeout")
        /\ ~InLog("report_error:block")

Follows(first, second) ==
    \E i \in 1..(Len(nav.log) - 1) : nav.log[i] = first /\ nav.log[i + 1] = second

\* C15: when an attempt hits a captcha and the manual solve succeeds, the
\* attempt completes as a success (report_success, return True) with no
\* identity rotation and on the same browser session; when the manual solve
\* times out, the identity is rotated and the navigation is retried if
\* attempts remain (a rotation that cannot create its session is an error
\* of the attempt).
C15_CaptchaSolvedOrRotated ==
    /\ InLog("wait_for_manual_solve:solved") =>
          /\ nav.pc = "returned" /\ nav.result = "True"
          /\ Follows("get", "wait_for_manual_solve:solved")
          /\ Follows("wait_for_manual_solve:solved", "report_success")
          /\ nav.log[Len(nav.log)] = "report_success"
          /\ ~InLog("rotate_ip")
          /\ ps.driver = Chrome
    /\ (InLog("wait_for_manual_solve:timeout") /\ ~InLog("report_error:generic")) =>
          /\ Follows("wait_for_manual_solve:timeout", "rotate_ip")
          /\ ~InLog("report_success")
          /\ \/ nav.pc = "try" /\ nav.attempt < nav.retries
             \/ nav.pc = "returned" /\ nav.result = "False"
                                    /\ nav.attempt = nav.retries
             \/ nav.pc = "except" /\ ps.driver = NoDriver

C15_Witness ==
    /\ InLog("wait_for_manual_solve:timeout") /\ InLog("rotate_ip")
    /\ nav.pc = "try" /\ nav.attempt = 1 /\ ps.driver = Chrome

NavigationError == InLog("get:error") \/ InLog("load:timeout")

\* C16 as stated: every attempt that fails with a navigation error reports
\* error('generic') and rotates the identity, the last attempt included.
C16_EveryErrorRotates ==
    (NavigationError /\ InLog("report_error:generic")) =>
        Follows("report_error:generic", "rotate_ip")

\* C16, amended: every attempt that fails with a navigation error reports
\* error('generic'); the identity is then rotated exactly when the attempt
\* was not the last one, and after the last one the call returns False
\* without a rotation.
C16_ErrorRotatesUnlessLast ==
    (NavigationError /\ InLog("report_error:generic")) =>
        /\ \/ Follows("get:error", "report_error:generic")
           \/ Follows("load:timeout", "report_error:generic")
        /\ IF nav.pc = "returned"
           THEN /\ nav.result = "False" /\ nav.attempt = nav.retries
                /\ ~InLog("rotate_ip")
           ELSE /\ nav.pc \in {"try", "raised"} /\ nav.attempt < nav.retries
                /\ Follows("report_error:generic", "rotate_ip")

C16_Witness ==
    /\ InLog("load:timeout") /\ InLog("report_error:generic")
    /\ nav.pc = "returned" /\ nav.retries = 3 /\ nav.rotations = 2
    /\ ~InLog("rotate_ip")

\* A step in which rotate_ip() ran with its default argument while a
\* fingerprint existed: the public operation, or a rotation made by
\* navigate_with_protection.
DefaultRotation ==
    /\ ps.current_fingerprint /= NoFingerprint
    /\ \/ nav'.op = "rotate_ip" /\ ps'.calls = ps.calls + 1
       \/ NavRunning /\ nav'.rotations > nav.rotations

\* C17: rotate_ip() with its default argument leaves current_fingerprint
\* unchanged whenever a fingerprint exists, and the session the rotation
\* creates is bound to the same fingerprint as the session it replaces.
C17_RotationKeepsFingerprint ==
    [][DefaultRotation =>
          /\ ps'.current_fingerprint = ps.current_fingerprint
          /\ ps'.fingerprints = ps.fingerprints
          /\ ps'.driver /= NoDriver =>
                ps'.session_fingerprint = ps.current_fingerprint
          /\ (ps.driver /= NoDriver /\ ps'.driver /= NoDriver) =>
                ps'.session_fingerprint = ps.session_fingerprint]_vars

C17_Witness ==
    /\ nav.op = "rotate_ip" /\ ps.calls = 2 /\ ps.driver = Chrome
    /\ ps.fingerprints = 1 /\ ps.current_fingerprint = 1
    /\ ps.session_fingerprint = 1

\* C18: new_identity() always leaves the controller with a fingerprint and
\* a network egress (proxy) that both differ from the ones in use before.
C18_NewIdentityChangesBoth ==
    [][(nav'.op = "new_identity" /\ ps'.calls = ps.calls + 1) =>
          /\ ps'.current_fingerprint /= ps.current_fingerprint
          /\ ps'.current_proxy /= ps.current_proxy]_vars

\* ------------------------------------------------------------------------
\* Properties of scrape_product_to_reviews (checked under SpecWorker)
\* ------------------------------------------------------------------------
WorkerEnded == wk.pc \in {"returned", "raised", "interrupted"}

\* start() has created the output file.
FileCreated == wk.pc \notin {"new", "start_failed"}

Labels == [i \in 1..Len(wk.output_file) |-> wk.output_file[i].label]

\* C3: a traversal that stops inside the pagination loop because a captcha
\* URL or a login redirect is detected, or because 'next' cannot be clicked
\* at all, returns a failure result (False), unlike one that ran out of pages.
C3_AbortedIsReported ==
    (wk.pc = "returned" /\ wk.stop_reason \in {"captcha", "login", "click_failed"})
        => wk.result = "False"

\* C4: every recoverable fault (a page-load timeout on the product page, on
\* reviews page 1 or on the direct navigation to the next href, and a 'see
\* all reviews' affordance without href) ends in a returned False, never in
\* a propagated exception.
C4_FaultsReturnFalse ==
    (wk.fault /= None) => (wk.pc = "returned" /\ wk.result = "False")

\* C5: with an unblocked product page that has a 'see all reviews' link and
\* a listing whose 'next' is present on pages 1-3 and absent on page 4, the
\* URL changing on every click and no last-page text, a finished run has
\* persisted exactly the 5 blocks product_page, reviews_page_1 .. 4 and has
\* returned True.
C5_FourPageListing ==
    (WorkerEnded /\ wk.nominal /\ site.last = 4) =>
        /\ wk.pc = "returned" /\ wk.result = "True"
        /\ wk.stop_reason = "no_next"
        /\ Labels = <<[kind |-> "product_page", n |-> 0],
                      [kind |-> "reviews_page", n |-> 1],
                      [kind |-> "reviews_page", n |-> 2],
                      [kind |-> "reviews_page", n |-> 3],
                      [kind |-> "reviews_page", n |-> 4]>>
        /\ wk.total_pages = 5

C5_Witness ==
    /\ wk.pc = "returned" /\ wk.nominal /\ site.last = 4
    /\ wk.result = "True" /\ Len(wk.output_file) = 5
    /\ site.url = <<"reviews", 4>>

\* C6: when the URL after the click equals the pre-click URL the loop waits
\* once more, never twice; if the URL is still the same the function has
\* ended, with one click in that iteration and nothing persisted for it.
C6_UnchangedUrlStops ==
    /\ wk.confirm_waits <= 1
    /\ wk.stalled =>
          /\ wk.pc = "returned"
          /\ wk.stop_reason = "url_unchanged"
          /\ wk.confirm_waits = 1
          /\ wk.iter_clicks = 1
          /\ Len(wk.output_file) = wk.iter_saved
          /\ wk.total_pages = wk.page_number + 1

C6_Witness ==
    /\ wk.stalled /\ wk.pc = "returned" /\ wk.confirm_waits = 1
    /\ wk.page_number = 2 /\ site.url = wk.next_href

ReviewsWithinBound ==
    /\ wk.page_number <= MAX_REVIEW_PAGES
    /\ (FileCreated /\ wk.output_file /= <<>>) =>
          /\ wk.output_file[1].label.kind = "product_page"
          /\ Len(wk.output_file) - 1 <= MAX_REVIEW_PAGES
          /\ wk.output_file[Len(wk.output_file)].label.n <= MAX_REVIEW_PAGES

\* C19: the pagination loop is bounded by MAX_REVIEW_PAGES: also when 'next'
\* is found on every page and the URL changes after every click, the
\* function ends and has persisted at most MAX_REVIEW_PAGES reviews pages.
C19_LoopIsBounded ==
    /\ []ReviewsWithinBound
    /\ (wk.pc = "s1_get") ~> WorkerEnded

C19_Witness ==
    /\ wk.pc = "returned" /\ wk.stop_reason = "max_pages"
    /\ wk.page_number = MAX_REVIEW_PAGES
    /\ Len(wk.output_file) = MAX_REVIEW_PAGES + 1
    /\ site.url = <<"reviews", MAX_REVIEW_PAGES>>

\* The function ended because check_for_blocks found the product page
\* blocked: no 'see all reviews' href was read yet.
ProductPageBlocked == wk.stop_reason = "blocked" /\ wk.href = None

\* C20: if the product page is classified as blocked after the first
\* navigation, the function returns failure at once: nothing is persisted,
\* total_pages and total_bytes stay 0 and the browser is still where the
\* first navigation took it.
C20_BlockedProductFailsRun ==
    ProductPageBlocked =>
        /\ wk.pc = "returned" /\ wk.result = "False"
        /\ wk.output_file = <<>>
        /\ wk.total_pages = 0 /\ wk.total_bytes = 0
        /\ wk.page_number = 0 /\ wk.iter_clicks = 0
        /\ site.url[2] = 0

C20_Witness ==
    /\ ProductPageBlocked /\ wk.pc = "returned" /\ wk.result = "False"
    /\ site.url = <<"product", 0>> /\ site.page = {"under_5000"}
    /\ wk.total_pages = 0

\* ------------------------------------------------------------------------
\* Properties of the ProxyManager (checked under SpecProxy)
\* ------------------------------------------------------------------------

\* Every proxy of the pool was in failed_proxies when the last call began.
PoolExhaustedBefore == Range(pm.proxy_list) \subseteq pmh.failed_before

\* C7: get_next_proxy never returns a proxy that was in failed_proxies when
\* it was called, unless every proxy of proxy_list was in failed_proxies; then
\* it returns some member of proxy_list and failed_proxies is empty afterwards.
C7_NextProxyAvoidsFailed ==
    (pmh.op = "get_next_proxy" /\ pmh.ret /= None) =>
        IF PoolExhaustedBefore
        THEN pmh.ret \in Range(pm.proxy_list) /\ pm.failed_proxies = {}
        ELSE pmh.ret \notin pmh.failed_before

\* C7 witness: a call on a pool of two or more proxies that were all marked
\* failed returned one of them and cleared the failure set.
C7_Witness ==
    /\ pmh.op = "get_next_proxy"
    /\ Cardinality(Range(pm.proxy_list)) >= 2
    /\ PoolExhaustedBefore
    /\ pmh.ret \in pmh.failed_before
    /\ pm.failed_proxies = {}

\* ------------------------------------------------------------------------
\* Properties of the ThrottleManager (checked under SpecThrottle)
\* ------------------------------------------------------------------------

\* C8: after burst_threshold consecutive wait() calls the multiplier is
\* strictly greater than it was before those calls.
C8_BurstStrictlyIncreases ==
    Len(th.recent) = BurstThreshold =>
        Less(th.recent[1], tm.backoff_multiplier)

\* C9: 1.0 <= multiplier <= 10.0 in every reachable state; it is at most 5.0
\* right after report_error('rate_limit'), at most 10.0 right after
\* report_error('block') and at most 3.0 right after a burst adjustment.
C9_MultiplierWithinCaps ==
    /\ LessEq(Q_1_0, tm.backoff_multiplier)
    /\ LessEq(tm.backoff_multiplier, Q_10_0)
    /\ (th.last_call = "report_error" /\ th.error_type = "rate_limit")
          => LessEq(tm.backoff_multiplier, Q_5_0)
    /\ (th.last_call = "report_error" /\ th.error_type = "block")
          => LessEq(tm.backoff_multiplier, Q_10_0)
    /\ (th.last_call = "wait" /\ th.burst)
          => LessEq(tm.backoff_multiplier, Q_3_0)

\* C9 witness: report_error('block') on a multiplier above 10/3 hit the 10.0 cap.
C9_Witness ==
    /\ th.last_call = "report_error"
    /\ th.error_type = "block"
    /\ Less(Q_10_0, Mul(th.prev, Q_3_0))
    /\ tm.backoff_multiplier = Q_10_0

\* C10: report_success strictly decreases a multiplier above 1.0, never takes
\* it below 1.0 and leaves a multiplier of 1.0 unchanged.
C10_SuccessDecaysToFloor ==
    th.last_call = "report_success" =>
        /\ LessEq(Q_1_0, tm.backoff_multiplier)
        /\ Less(Q_1_0, th.prev) => Less(tm.backoff_multiplier, th.prev)
        /\ th.prev = Q_1_0 => tm.backoff_multiplier = Q_1_0

\* C10 witness: report_success on a multiplier between 1.0 and 1/0.9, where
\* the product with 0.9 falls below the floor.
C10_Witness ==
    /\ th.last_call = "report_success"
    /\ Less(Q_1_0, th.prev)
    /\ Less(Mul(th.prev, Q_0_9), Q_1_0)
    /\ tm.backoff_multiplier = Q_1_0

\* ---------------------------------------------------------------------------
\* The output file and the end of main()

\* One sequence is a prefix of the other.
IsPrefix(s, t) == Len(s) <= Len(t) /\ SubSeq(t, 1, Len(s)) = s

\* C21: once start() has created the output file it is only appended to:
\* in every step, what the file held before is a prefix of what it holds
\* after, also in the steps that return failure, abort or run stop().
C21_OutputIsAppendOnly ==
    [][FileCreated => IsPrefix(wk.output_file, wk'.output_file)]_vars

C21_Witness ==
    /\ wk.pc = "returned" /\ wk.result = "False" /\ wk.stopped
    /\ Len(wk.output_file) = 1

\* C22: however main() ends (True or False returned, a KeyboardInterrupt at
\* any wait of the traversal, any other exception, a failed start), when the
\* process exits stop() has run and scraper.driver is None.
C22_ExitAfterStop ==
    (wk.exit_code /= None) => (wk.stopped /\ wk.driver = None)

C22_Witness ==
    /\ wk.exit_code = "130" /\ wk.pc = "interrupted"
    /\ wk.stopped /\ wk.driver = None
    /\ Len(wk.output_file) = 2

\* C30: at every point of a run the labels persisted so far are
\* product_page, reviews_page_1, .., reviews_page_k in this order, without
\* gap or repeat, and total_pages is the number of persisted blocks.
C30_LabelsAreContiguous ==
    FileCreated =>
        /\ wk.total_pages = Len(wk.output_file)
        /\ \A i \in 1..Len(wk.output_file) :
              wk.output_file[i].label =
                  IF i = 1 THEN [kind |-> "product_page", n |-> 0]
                  ELSE [kind |-> "reviews_page", n |-> i - 1]

C30_Witness ==
    /\ wk.pc = "click" /\ wk.page_number = 2
    /\ Len(wk.output_file) = 3 /\ wk.total_pages = 3

\* ---------------------------------------------------------------------------
\* Properties of the loader (checked under SpecLoader)

\* C23: for every sequence of N >= 1 pages appended with the delimiter
\* format, split_pages returns exactly N pages, in order, with the label,
\* url and timestamp that were written and with the content of each page
\* as it was written.
C23_LoaderRoundTrip ==
    (ld.pc = "split" /\ ld.written /= <<>>) =>
        /\ Len(ld.pages) = Len(ld.written)
        /\ \A i \in 1..Len(ld.written) :
              /\ ld.pages[i].label = ld.written[i].label
              /\ ld.pages[i].url = ld.written[i].url
              /\ ld.pages[i].timestamp = ld.written[i].timestamp
              /\ ld.pages[i].soup = [markup |-> ld.written[i].html]

\* The input of split_pages holds no delimiter block.
NoDelimiter == \A i \in 1..Len(ld.raw) : ld.raw[i].t /= "header"

\* C24: for an input without any page delimiter split_pages returns exactly
\* one page, labelled "full_file", with empty url and timestamp, built from
\* the entire input.
C24_NoDelimiterIsFullFile ==
    (ld.pc = "split" /\ NoDelimiter) =>
        ld.pages = <<[label |-> "full_file", url |-> "", timestamp |-> "",
                      soup |-> [markup |-> ld.raw]]>>

C24_Witness ==
    /\ ld.pc = "split" /\ ld.raw = <<Ws, Tx>>
    /\ Len(ld.pages) = 1 /\ ld.pages[1].label = "full_file"

\* ---------------------------------------------------------------------------
\* Properties of the fingerprints (checked under SpecFingerprint)

\* C25: two BrowserFingerprint objects created with the same seed agree on
\* every attribute and on the canvas, webgl and audio hashes, whatever was
\* generated or drawn before and between them.
C25_SameSeedSameFingerprint ==
    \A i, j \in 1..Len(fg.made) :
        (fg.made[i].seed = fg.made[j].seed) => (fg.made[i] = fg.made[j])

C25_Witness ==
    /\ Len(fg.made) = 3
    /\ fg.made[1].seed = fg.made[3].seed
    /\ fg.made[2].seed /= fg.made[1].seed
    /\ fg.made[2].user_agent /= fg.made[1].user_agent
    /\ fg.module_rng /= 0

\* ---------------------------------------------------------------------------
\* Pacing and frame of the throttle (checked under SpecThrottle)

\* C26: when wait() returns, at least base_delay * backoff_multiplier
\* seconds have passed since the previous wait() returned, base_delay lying
\* in [min_delay, max_delay]; wait() sleeps exactly when less than that had
\* passed at its entry, asks time.sleep for the shortfall only, and returns
\* at once otherwise.
C26_WaitPacesRequests ==
    (th.last_call = "wait") =>
        LET n == th.base_delay * Numer(tm.backoff_multiplier)
            d == Denom(tm.backoff_multiplier)
        IN /\ th.base_delay >= 2 /\ th.base_delay <= 5
           /\ th.slept <=> (th.since * d < n)
           /\ th.slept =>
                 /\ th.sleep_time = [n |-> n - th.since * d, d |-> d]
                 /\ th.waited.d = d /\ th.waited.n >= n
           /\ ~th.slept =>
                 /\ th.sleep_time.n = 0
                 /\ th.waited = [n |-> th.since, d |-> 1]
                 /\ th.since * d >= n

C26_Witness ==
    /\ th.last_call = "wait" /\ th.slept
    /\ th.since = 5 /\ th.base_delay = 2
    /\ tm.backoff_multiplier = Mul(Q_3_0, Q_0_9)
    /\ th.sleep_time = [n |-> 4, d |-> 10]

C28_MarkFailedIdempotent ==
    [][/\ pm'.proxy_list = pm.proxy_list
       /\ (pmh.op = "mark_failed" /\ pmh'.op = "mark_failed" /\ pmh'.arg = pmh.arg)
             => pm'.failed_proxies = pm.failed_proxies]_vars

C28_Witness ==
    /\ pmh.op = "mark_failed" /\ pmh.arg /= None
    /\ pmh.arg \in pmh.failed_before
    /\ pm.failed_proxies = pmh.failed_before
    /\ Len(pm.proxy_list) = 2

\* ---------------------------------------------------------------------------
\* The blocked attempt (checked under Spec)

\* The position of report_error("block") in the log of the attempt.
BlockAt == CHOOSE i \in 1..Len(nav.log) : nav.log[i] = "report_error:block"

\* The steps of a blocked attempt from the report on; a scraper without
\* proxies has no current proxy to mark.
BlockSteps ==
    <<"report_error:block", "rotate_ip">>
        \o (IF pm.proxy_list /= <<>> THEN <<"mark_failed">> ELSE <<>>)
        \o <<"quit", "sleep", "create">>

BlockedAttemptInOrder ==
    InLog("report_error:block") =>
        /\ BlockAt >= 2 /\ nav.log[BlockAt - 1] = "get"
        /\ Len(nav.log) >= BlockAt + Len(BlockSteps) - 1
        /\ SubSeq(nav.log, BlockAt, BlockAt + Len(BlockSteps) - 1) = BlockSteps
        /\ \A j \in (BlockAt + 1)..Len(nav.log) : nav.log[j] /= "get"
        /\ ~InLog("report_error:generic") =>
              /\ Len(nav.log) = BlockAt + Len(BlockSteps) - 1
              /\ \/ ps.driver = Chrome /\ nav.pc = "try" /\ nav.attempt < nav.retries
                 \/ ps.driver = Chrome /\ nav.pc = "returned"
                                       /\ nav.result = "False"
                                       /\ nav.attempt = nav.retries
                 \/ ps.driver = NoDriver /\ nav.pc = "except"

\* The attempt after a blocked one starts on the session the rotation made.
NextAttemptUsesNewSession ==
    (/\ InLog("report_error:block") /\ nav.pc = "try" /\ ps.driver = Chrome
     /\ nav'.log /= nav.log)
        => /\ Len(nav'.log) >= 2
           /\ nav'.log[1] = "wait"
           /\ nav'.log[2] \in {"get", "get:error", "load:timeout"}

\* C29: in an attempt classified as blocked the steps are, in this order,
\* report_error("block"), mark the current proxy failed, quit the session,
\* cool down, create a new session; the blocked session is not used after
\* that, and the next attempt navigates with the session just created
\* (without proxies there is no current proxy to mark; a creation that
\* raises is an error of the attempt, handled by the except clause).
C29_BlockedAttemptOrder ==
    /\ []BlockedAttemptInOrder
    /\ [][NextAttemptUsesNewSession]_vars

C29_Witness ==
    /\ InLog("report_error:block") /\ InLog("mark_failed")
    /\ nav.pc = "try" /\ nav.attempt = 1 /\ ps.driver = Chrome
    /\ Len(pm.proxy_list) = 2

\* ------------------------------------------------------------------------
\* The two captcha classifiers (SpecDetect)
\* ------------------------------------------------------------------------

\* C31: on every page, _silent_captcha_check answers True exactly when
\* is_captcha_present reports a captcha of some kind (url, title, element,
\* text_pattern or small_page).
C31_SilentCheckAgrees ==
    det.op = "is_captcha_present" =>
        /\ det.ret \in {None, "url", "title", "element", "text_pattern",
                        "small_page"}
        /\ (det.ret # None) <=> silent_captcha_check(det.page)

\* is_captcha_present reported a captcha by the last of its checks, the one
\* on small pages, and the silent check says True of the same page.
C31_Witness ==
    /\ det.op = "is_captcha_present"
    /\ det.ret = "small_page"
    /\ silent_captcha_check(det.page)

\* ------------------------------------------------------------------------
\* report_error and the multiplier (SpecThrottle)
\* ------------------------------------------------------------------------

\* C36: report_error never lowers the multiplier: after report_error of any
\* kind (rate_limit, block, generic) the multiplier is at least what it was
\* before the call.
C36_ReportErrorNeverLowers ==
    th.last_call = "report_error" =>
        LessEq(th.prev, tm.backoff_multiplier)

\* ------------------------------------------------------------------------
\* The retry budget of navigate_with_protection (Spec)
\* ------------------------------------------------------------------------

\* C38: navigate_with_protection(url, max_retries=n) makes at most n
\* attempts for every n >= 0 (each attempt starts with one throttle wait, so
\* the waits are as many as the attempts).
C38_AtMostNAttempts ==
    (nav.op = "navigate_with_protection" /\ nav.given) =>
        nav.attempts <= nav.max_retries

\* ------------------------------------------------------------------------
\* Repeated rotation (SpecRotate): a ProtectedScraper over a pool of k
\* proxies whose caller starts a session and then calls rotate_ip /
\* new_identity again and again. pmh records, since the failure set was last
\* emptied (or a session was started afresh): the proxies get_next_proxy
\* returned (picked), the proxies that became current_proxy (used), and
\* whether one of them came a second time before all had come once.
\* ------------------------------------------------------------------------
RotIdle == [op |-> None, picked |-> {}, used |-> {}, repicked |-> FALSE,
            reused |-> FALSE, marked |-> None, others |-> FALSE,
            pick |-> None, created |-> FALSE, orphans |-> 0]

InitRotate ==
    /\ pm \in {ProxyManagerInit(SubSeq(ProxyNames, 1, k)) : k \in 1..MaxPool}
    /\ pmh = RotIdle
    /\ tm = ThrottleManagerInit
    /\ th = ThInit
    /\ ps = ProtectedScraperInit
    /\ nav = NavIdle
    /\ wk = WkIdle
    /\ site = SiteIdle
    /\ det = DetIdle
    /\ ld = LdIdle
    /\ fg = FgIdle
    /\ hs = HsIdle
    /\ az = AzIdle

\* Environment choices of one create_protected_driver call: webdriver.Chrome()
\* raises, or returns a browser (launched) on which apply_to_driver's
\* execute_cdp_cmd raises or succeeds (chrome_ok).
LaunchChoices(picks) ==
    {[chrome_ok |-> ok, launched |-> l, pick |-> p] :
        ok \in BOOLEAN, l \in BOOLEAN, p \in picks} \ 
    {[chrome_ok |-> TRUE, launched |-> FALSE, pick |-> p] : p \in picks}

\* The record of one selection: `before` is the manager get_next_proxy is
\* called on, `rotation` tells a rotate_ip from a fresh start_driver.
\* `orphans` counts the browsers webdriver.Chrome() returned that were
\* neither assigned to self.driver nor quit.
Selection(op, before, rotation, e) ==
    LET pool == Range(before.proxy_list)
        kept == rotation /\ Available(before) /= <<>>
        picked == IF kept THEN pmh.picked ELSE {}
        used == IF kept THEN pmh.used ELSE {}
    IN [op |-> op,
        picked |-> picked \cup {e.pick},
        used |-> IF e.chrome_ok THEN used \cup {e.pick} ELSE used,
        repicked |-> pmh.repicked \/ (e.pick \in picked /\ picked /= pool),
        reused |-> pmh.reused
                   \/ (e.chrome_ok /\ e.pick \in used /\ used /= pool),
        marked |-> IF rotation THEN ps.current_proxy ELSE None,
        others |-> rotation /\ Available(before) /= <<>>,
        pick |-> e.pick,
        created |-> e.chrome_ok,
        orphans |-> pmh.orphans
                    + (IF e.launched /\ ~e.chrome_ok THEN 1 ELSE 0)]

\* start_driver() of a scraper that has had no session yet.
FreshStart ==
    /\ ps.calls < MaxRotations
    /\ ps.current_proxy = None
    /\ \E e \in LaunchChoices(PickSetStart(World)) :
          /\ Commit([start_driver(World, FALSE, e) EXCEPT !.ps.calls = @ + 1])
          /\ pmh' = Selection("start_driver", pm, FALSE, e)
    /\ UNCHANGED <<nav, th, wk, site, det, ld, fg, hs, az>>

\* rotate_ip(new_fingerprint) (new_identity() is rotate_ip(True)) of a
\* scraper that has a current proxy.
Rotation ==
    /\ ps.calls < MaxRotations
    /\ ps.current_proxy /= None
    /\ \E new_fingerprint \in BOOLEAN, e \in LaunchChoices(PickSetRotate(World)) :
          /\ Commit([rotate_ip(World, new_fingerprint, e)
                        EXCEPT !.ps.calls = @ + 1])
          /\ pmh' = Selection("rotate_ip", mark_failed(pm, ps.current_proxy),
                              TRUE, e)
    /\ UNCHANGED <<nav, th, wk, site, det, ld, fg, hs, az>>

NextRotate == FreshStart \/ Rotation

SpecRotate == InitRotate /\ [][NextRotate]_vars

\* ------------------------------------------------------------------------
\* human_scroll (src/scraper/actions.py) on one page (SpecScroll)
\*
\* The page is `height` pixels high and grows by LazyLoad pixels up to
\* `growth` more times; the target element, if the page has one, has its top
\* edge target_y pixels below the top of the document (NoTarget: none).
\* scroll_y is window.pageYOffset: the browser clamps a scrollTo to
\* [0, height - innerHeight].
\* ------------------------------------------------------------------------
NoTarget == -1
PageHeights == {500, 700, 1300, 2000}
InnerHeights == {700}
TargetYs == {NoTarget, 100, 690, 1250, 1900, 2600}
LazyLoad == 600
SCROLL_STEP == <<300, 500>>    \* pixels per scroll tick
ScrollAmounts == {SCROLL_STEP[1], 400, SCROLL_STEP[2]}
ScrollBacks == {30, 80}        \* back = random.randint(30, 80)

Max(a, b) == IF a >= b THEN a ELSE b
Min(a, b) == IF a <= b THEN a ELSE b

\* window.scrollTo(top) on a page of the given height.
ScrollTo(top, height, inner_height) ==
    Max(0, Min(top, height - inner_height))

\* is_element_in_viewport: rect.top >= 0 && rect.top <= wh, for the element
\* find_element returns (NoSuchElementException when the page has none).
is_element_in_viewport(target_y, scroll_y, wh) ==
    /\ target_y /= NoTarget
    /\ target_y - scroll_y >= 0
    /\ target_y - scroll_y <= wh

\* total_height at the end of an iteration, as the variant that keeps the
\* height measured before the loop.
TotalHeightReadOnce(total_height, scroll_height) == total_height

\* total_height = driver.execute_script("return document.body.scrollHeight")
\* at the end of every iteration.
TotalHeight(total_height, scroll_height) == scroll_height

InitScroll ==
    /\ pm = ProxyManagerInit(<<>>)
    /\ pmh = PmhInit
    /\ tm = ThrottleManagerInit
    /\ th = ThInit
    /\ ps = ProtectedScraperInit
    /\ nav = NavIdle
    /\ wk = WkIdle
    /\ site = SiteIdle
    /\ det = DetIdle
    /\ ld = LdIdle
    /\ fg = FgIdle
    /\ hs \in {[HsIdle EXCEPT !.pc = "ready", !.height = h, !.inner_height = wh,
                              !.growth = g, !.target_y = t] :
                 h \in PageHeights, wh \in InnerHeights, g \in 0..MaxGrowth,
                 t \in TargetYs}
    /\ az = AzIdle

HsFrame == <<pm, pmh, tm, th, ps, nav, wk, site, det, ld, fg, az>>

\* human_scroll(driver, target_xpath, stop_on_find=True) up to the loop:
\* the two measurements, current_pos = 0, found_element = None.
ScrollStart ==
    /\ hs.pc = "ready"
    /\ hs' = [hs EXCEPT !.pc = "loop",
                        !.total_height = hs.height,
                        !.viewport_height = hs.inner_height,
                        !.current_pos = 0, !.scroll_count = 0,
                        !.found_element = None,
                        !.in_view_seen =
                            is_element_in_viewport(hs.target_y, hs.scroll_y,
                                                   hs.inner_height)]
    /\ UNCHANGED HsFrame

\* One iteration of `while current_pos < total_height - viewport_height`:
\* the scroll by a random amount, the check for the target, the occasional
\* scroll-back (back = 0: none), the page lazy-loading or not, the re-read
\* of the height.
ScrollStep ==
    /\ hs.pc = "loop"
    /\ hs.current_pos < hs.total_height - hs.viewport_height
    /\ \E amount \in ScrollAmounts, back \in {0} \cup ScrollBacks,
          loads \in BOOLEAN :
          /\ loads => hs.growth > 0
          /\ LET pos1 == hs.current_pos + amount
                 y1 == ScrollTo(pos1, hs.height, hs.inner_height)
                 in_view == is_element_in_viewport(hs.target_y, y1,
                                                   hs.inner_height)
                 h1 == [hs EXCEPT !.scroll_count = @ + 1,
                                  !.current_pos = pos1, !.scroll_y = y1,
                                  !.in_view_seen = @ \/ in_view]
                 pos2 == IF back > 0 THEN Max(0, pos1 - back) ELSE pos1
                 height == IF loads THEN hs.height + LazyLoad ELSE hs.height
             IN hs' = IF in_view
                      THEN [h1 EXCEPT !.pc = "returned",
                                      !.found_element = "element"]
                      ELSE [h1 EXCEPT
                              !.current_pos = pos2,
                              !.scroll_y = IF back > 0
                                           THEN ScrollTo(pos2, hs.height,
                                                         hs.inner_height)
                                           ELSE y1,
                              !.scrolled_back = @ \/ back > 0,
                              !.height = height,
                              !.growth = IF loads THEN @ - 1 ELSE @,
                              !.grown = IF loads THEN @ + 1 ELSE @,
                              !.total_height = TotalHeight(@, height)]
    /\ UNCHANGED HsFrame

\* The loop test fails: "Scrolling complete", return found_element (None).
ScrollReturn ==
    /\ hs.pc = "loop"
    /\ ~(hs.current_pos < hs.total_height - hs.viewport_height)
    /\ hs' = [hs EXCEPT !.pc = "returned"]
    /\ UNCHANGED HsFrame

NextScroll == ScrollStart \/ ScrollStep \/ ScrollReturn

SpecScroll == InitScroll /\ [][NextScroll]_vars

\* human_scroll is one sequential call: its next step is taken.
SpecScrollLive == SpecScroll /\ WF_vars(NextScroll)

\* C34, as stated: under repeated rotation no proxy is returned by
\* get_next_proxy a second time before every proxy of the pool has been
\* returned once since the failure set was last emptied, and the proxy a
\* rotation chooses differs from the one it has just marked failed whenever
\* another proxy of the pool is not marked failed.
C34_NoRepeatBeforeAllSelected ==
    /\ ~pmh.repicked
    /\ (pmh.op = "rotate_ip" /\ pmh.others) => pmh.pick /= pmh.marked

\* C34: under repeated rotation no proxy becomes the proxy of a session a
\* second time before every proxy of the pool has been the proxy of a
\* session once since the failure set was last emptied, and the proxy a
\* rotation chooses differs from the one it has just marked failed whenever
\* another proxy of the pool is not marked failed. (A proxy chosen for a
\* session whose creation raised never became current_proxy, is not marked
\* failed by the next rotation and may be chosen again.)
C34_NoReuseBeforeAllUsed ==
    /\ ~pmh.reused
    /\ (pmh.op = "rotate_ip" /\ pmh.others)
          => (pmh.pick /= pmh.marked /\ pmh.pick \notin pm.failed_proxies)

\* A start and two rotations over a pool of three proxies gave three sessions
\* on three different proxies, the last one after the second proxy was marked
\* failed.
C34_Witness ==
    /\ pmh.op = "rotate_ip" /\ pmh.created /\ pmh.others
    /\ Len(pm.proxy_list) = 3
    /\ pmh.used = Range(pm.proxy_list)
    /\ Cardinality(pm.failed_proxies) = 2

\* ------------------------------------------------------------------------
\* Sessions owned by the ProtectedScraper (SpecRotate)
\* ------------------------------------------------------------------------

\* C35: the ProtectedScraper owns at most one live browser session in every
\* reachable state: every browser ever created is the current one
\* (self.driver) or has been quit, so none is left over by start_driver,
\* rotate_ip or new_identity.
C35_AtMostOneLiveSession ==
    pmh.orphans + (IF ps.driver /= NoDriver THEN 1 ELSE 0) <= 1

\* ------------------------------------------------------------------------
\* Following the 'Next page' button (SpecWorker)
\* ------------------------------------------------------------------------

\* C33: the engine tries the native element click first, the
\* script-driven click only if the native click failed, the navigation to
\* the href only if both failed, and gives up only when both failed and the
\* button has no href.
C33_NativeClickFirst ==
    /\ wk.clicks \in {<<>>, <<"element_click">>,
                      <<"element_click", "script_click">>,
                      <<"element_click", "script_click", "get">>,
                      <<"element_click", "script_click", "return_none">>}
    /\ wk.stop_reason = "click_failed"
          <=> (wk.clicks /= <<>> /\ wk.clicks[Len(wk.clicks)] = "return_none")

\* ------------------------------------------------------------------------
\* The last-page signal (SpecWorker)
\* ------------------------------------------------------------------------

\* The reviews pages persisted so far.
ReviewsPersisted ==
    {wk.output_file[i].label.n :
        i \in {j \in 1..Len(wk.output_file) :
                  wk.output_file[j].label.kind = "reviews_page"}}

\* C40: when the page reached by a 'next' click shows a last-page signal the
\* loop ends with True and that page is not persisted: the persisted reviews
\* pages are 1 .. page_number - 1; in every other state of the loop they are
\* 1 .. page_number, so every page advanced to without a signal has been
\* persisted.
C40_LastPageSignalNotPersisted ==
    (FileCreated /\ wk.page_number >= 1) =>
        IF wk.stop_reason = "last_page_signal"
        THEN /\ wk.pc = "returned" /\ wk.result = "True"
             /\ ReviewsPersisted = 1..(wk.page_number - 1)
             /\ wk.total_pages = wk.page_number
        ELSE /\ ReviewsPersisted = 1..wk.page_number
             /\ wk.total_pages = wk.page_number + 1

\* The third reviews page showed the signal: the run returned True with the
\* product page and two reviews pages persisted.
C40_Witness ==
    /\ wk.stop_reason = "last_page_signal" /\ wk.pc = "returned"
    /\ wk.page_number = 3
    /\ Len(wk.output_file) = 3
    /\ looks_like_last_page(site.page)

\* ------------------------------------------------------------------------
\* Properties of human_scroll (checked under SpecScroll / SpecScrollLive)
\* ------------------------------------------------------------------------

\* human_scroll has returned without the target.
ReturnedNone == hs.pc = "returned" /\ hs.found_element = None

\* C32: human_scroll terminates on every page that stops growing after
\* finitely many scroll steps, with or without the target and whatever the
\* scroll-backs; when it ends without the target, current_pos has reached
\* total height minus viewport height, with the height as re-read at the end
\* of the last iteration (the height the page has then).
C32_ScrollTerminates ==
    /\ [](ReturnedNone =>
            /\ hs.current_pos >= hs.total_height - hs.viewport_height
            /\ hs.total_height = hs.height)
    /\ <>(hs.pc = "returned")

\* The scroll ended without the target on a page that grew twice, after a
\* scroll-back.
C32_Witness ==
    /\ ReturnedNone
    /\ hs.grown = 2 /\ hs.scrolled_back
    /\ hs.scroll_count >= 5

\* C39: human_scroll(target_xpath, stop_on_find=True) returns the target
\* whenever it was inside the viewport at the start of the call or after a
\* scroll step, also on a page not higher than the viewport, and returns
\* None only if the target never was inside the viewport.
C39_ReturnsTargetSeenInViewport ==
    (hs.pc = "returned") =>
        (hs.found_element = "element" <=> hs.in_view_seen)

\* ------------------------------------------------------------------------
\* scrape_amazon_page(url, target_xpath, use_protection=True) of
\* src/amazon.py (SpecAmazon). The ProtectedScraper it creates runs
\* navigate_with_protection(url) as in Spec. az.driver tells which session
\* the local variable `driver` holds: "current" (the scraper's live
\* session) or "quit" (a session rotate_ip has quit). az.visited tells
\* whether the scraper's live session has loaded the requested URL.
\* ------------------------------------------------------------------------
InitAmazon ==
    /\ pm \in {ProxyManagerInit(l) : l \in Pools}
    /\ pmh = PmhInit
    /\ tm = ThrottleManagerInit
    /\ th = ThInit
    /\ ps = ProtectedScraperInit
    /\ nav = NavIdle
    /\ wk = WkIdle
    /\ site = SiteIdle
    /\ det = DetIdle
    /\ ld = LdIdle
    /\ fg = FgIdle
    /\ hs = HsIdle
    /\ az \in {[AzIdle EXCEPT !.pc = "start", !.target_xpath = t] : t \in BOOLEAN}

AzFrame == <<pmh, th, wk, site, det, ld, fg, hs>>

\* success = scraper.navigate_with_protection(url): the call ...
AzNavigate ==
    /\ az.pc = "start"
    /\ nav.pc = "idle"
    /\ StartNavigate
    /\ ~nav'.given

\* ... and its attempts: the try block,
AzAttemptTry ==
    /\ az.pc = "start"
    /\ AttemptTry

\* and the except clause.
AzAttemptExcept ==
    /\ az.pc = "start"
    /\ AttemptExcept

\* An exception leaves the try block of scrape_amazon_page: "Error
\* occurred", raise, and in the finally clause scraper.cleanup().
AzRaised(w) ==
    /\ Commit(cleanup(w))
    /\ az' = [az EXCEPT !.pc = "raised", !.driver = None]

\* if not success: raise Exception("Failed to navigate ..."), or the
\* exception navigate_with_protection let through.
AzNavigationFailed ==
    /\ az.pc = "start"
    /\ \/ nav.pc = "returned" /\ nav.result = "False"
       \/ nav.pc = "raised"
    /\ AzRaised(World)
    /\ UNCHANGED <<nav, AzFrame>>

\* driver = scraper.get_driver() after a successful navigation; time.sleep(2).
AzGetDriver ==
    /\ az.pc = "start"
    /\ nav.pc = "returned" /\ nav.result = "True"
    /\ \E e \in StartChoices(IF ps.driver = NoDriver THEN PickSetStart(World)
                                                    ELSE {None}) :
          LET w == get_driver(World, e)
          IN /\ (ps.driver /= NoDriver) => e.chrome_ok
             /\ IF w.raised THEN AzRaised(w)
                ELSE /\ Commit(w)
                     /\ az' = [az EXCEPT !.pc = "scroll", !.driver = "current",
                                         !.visited = ps.driver /= NoDriver
                                                     /\ InLog("get")]
    /\ UNCHANGED <<nav, AzFrame>>

\* One iteration of the loop of scroll_and_find_element(driver,
\* target_xpath, protected_scraper=scraper): the scroll, the block check of
\* every 5th scroll (rotate_ip and break), the captcha check of every 3rd
\* (break unless solved), the target in the viewport (click and break), the
\* bottom of the page without new content (break). The page ends within
\* MaxScrolls scrolls.
AzScrollStep ==
    /\ az.pc = "scroll"
    /\ \E page \in ServedPages, in_view \in BOOLEAN, bottom \in BOOLEAN,
          solved \in BOOLEAN, e \in StartChoices(PickSetRotate(World)) :
          LET n == az.scroll_count + 1
              blocked == n % 5 = 0 /\ is_blocked(page)
              captcha == ~blocked /\ n % 3 = 0 /\ is_captcha_present(page) /= None
              a1 == [az EXCEPT !.scroll_count = n,
                               !.was_blocked = blocked,
                               !.captcha_detected = @ \/ captcha]
              w == IF blocked THEN rotate_ip(World, FALSE, e) ELSE World
          IN /\ in_view => az.target_xpath
             /\ (n >= MaxScrolls) => bottom
             /\ blocked \/ e.chrome_ok
             /\ IF w.raised THEN AzRaised(w)
                ELSE /\ Commit(w)
                     /\ az' = IF blocked
                              THEN [a1 EXCEPT !.pc = "scrolled",
                                              !.driver = "quit",
                                              !.visited = FALSE]
                              ELSE IF captcha /\ ~solved
                              THEN [a1 EXCEPT !.pc = "scrolled"]
                              ELSE IF in_view
                              THEN [a1 EXCEPT !.pc = "scrolled",
                                              !.element_found = TRUE]
                              ELSE IF bottom
                              THEN [a1 EXCEPT !.pc = "scrolled"]
                              ELSE a1
    /\ UNCHANGED <<nav, AzFrame>>

\* After the scroll: with a target, `if was_blocked: driver =
\* scraper.get_driver()`; without one the results are dropped and `driver`
\* stays what it was. html_content = extract_html(driver) raises on a
\* session that was quit; return html_content; finally scraper.cleanup().
AzExtract ==
    /\ az.pc = "scrolled"
    /\ \E e \in StartChoices(IF ps.driver = NoDriver THEN PickSetStart(World)
                                                    ELSE {None}) :
          LET retried == az.target_xpath /\ az.was_blocked
              w == IF retried THEN get_driver(World, e) ELSE World
              driver == IF retried THEN "current" ELSE az.driver
          IN /\ (ps.driver /= NoDriver \/ ~retried) => e.chrome_ok
             /\ IF w.raised \/ driver = "quit" THEN AzRaised(w)
                ELSE /\ Commit(cleanup(w))
                     /\ az' = [az EXCEPT !.pc = "returned", !.driver = None,
                                         !.html = IF az.visited
                                                  THEN "page of the url"
                                                  ELSE "page of a new session"]
    /\ UNCHANGED <<nav, AzFrame>>

NextAmazon ==
    \/ AzNavigate
    \/ AzAttemptTry
    \/ AzAttemptExcept
    \/ AzNavigationFailed
    \/ AzGetDriver
    \/ AzScrollStep
    \/ AzExtract

SpecAmazon == InitAmazon /\ [][NextAmazon]_vars

\* C37: in protected mode the HTML scrape_amazon_page returns comes from a
\* browser session that has navigated to the requested URL, also when a
\* block detected while scrolling made scroll_and_find_element rotate.
C37_HtmlFromNavigatedSession ==
    (az.pc = "returned") => az.html = "page of the url"

====
